---- MODULE Spec2Model ----
(***************************************************************************)
(* Model of the planning engine of the Kit targeting API                   *)
(* (api/app/routers/analytics.py, api/app/smart_matching.py).              *)
(*                                                                         *)
(* Numbers that the code holds as floats are modelled as exact rationals   *)
(* <<numerator, denominator>> with a positive denominator, so a bound such *)
(* as "spend <= budget" is checked in real arithmetic, which is what the   *)
(* specification's "within floating-point epsilon" refers to.              *)
(*                                                                         *)
(* A Python value that may be None is a tuple: <<>> for None, <<x>> for x. *)
(* Where the code only ever tests truthiness (category, advertiser_id,     *)
(* insertion_id, cpc), None and the falsy value take the same branches and *)
(* are both written as the falsy value ("" or 0).                          *)
(***************************************************************************)
EXTENDS Integers, Sequences, FiniteSets, TLC

\* ------------------------------------------------------------------------
\* Bounds of the model
\* ------------------------------------------------------------------------
NumCreators == 2

\* ------------------------------------------------------------------------
\* Exact rational arithmetic
\* ------------------------------------------------------------------------
RECURSIVE Gcd(_, _)
Gcd(a, b) == IF b = 0 THEN a ELSE Gcd(b, a % b)

Abs(n) == IF n < 0 THEN -n ELSE n

Rat(n, d) ==
    LET s == IF d < 0 THEN -1 ELSE 1
        g == Gcd(Abs(n), Abs(d))
    IN  IF n = 0 THEN <<0, 1>> ELSE <<(s * n) \div g, (s * d) \div g>>

RInt(n) == <<n, 1>>
RZero == <<0, 1>>
RAdd(a, b) == Rat(a[1] * b[2] + b[1] * a[2], a[2] * b[2])
RSub(a, b) == Rat(a[1] * b[2] - b[1] * a[2], a[2] * b[2])
RMul(a, b) == Rat(a[1] * b[1], a[2] * b[2])
RDiv(a, b) == Rat(a[1] * b[2], a[2] * b[1])
RLe(a, b) == a[1] * b[2] <= b[1] * a[2]
RLt(a, b) == a[1] * b[2] < b[1] * a[2]
RMax(a, b) == IF RLe(a, b) THEN b ELSE a

\* float('inf'), the expected CPA of a zero conversion rate
Inf == <<1, 0>>
IsInf(x) == x[2] = 0
\* x <= y where either side may be float('inf')
XLe(x, y) == IF IsInf(x) THEN IsInf(y) ELSE IF IsInf(y) THEN TRUE ELSE RLe(x, y)

\* None / Some
None == <<>>
Some(x) == <<x>>
IsNone(o) == o = <<>>
Val(o) == o[1]

RECURSIVE SeqSum(_)
SeqSum(s) == IF s = <<>> THEN RZero ELSE RAdd(Head(s), SeqSum(Tail(s)))

\* ------------------------------------------------------------------------
\* The stored tables (api/app/models.py)
\* ------------------------------------------------------------------------
VARIABLES
    click_uniques,      \* rows of ClickUnique joined to the insertion of their PerfUpload
    conversions,        \* rows of Conversion joined to the advertiser of their ConvUpload
    declined_creators,  \* rows of DeclinedCreator
    plans,              \* rows of Plan
    call                \* the planning call in progress or just answered

vars == <<click_uniques, conversions, declined_creators, plans, call>>

\* Reference rows that no operation of the model changes: two advertisers,
\* each with one campaign and one insertion.
AdvertiserIds == {1, 2}
AdvertiserCategory == <<"catA", "catB">>
CampaignAdvertiser == <<1, 2>>
InsertionIds == {1, 2}
InsertionCampaign == <<1, 2>>
InsertionCpc == <<RInt(1), RInt(2)>>

CreatorIds == 1 .. NumCreators
\* Creator.acct_id is unique per creator; Creator.conservative_click_estimate
\* is nullable (0 stands for NULL: the code only tests its truthiness)
CreatorAcctId(c) == <<"A", "B", "C", "D", "E">>[c]
CreatorClickEstimate(c) == IF c % 2 = 0 THEN 40 ELSE 0

\* the advertiser a click row belongs to: PerfUpload -> Insertion -> Campaign
InsertionAdvertiser(i) == CampaignAdvertiser[InsertionCampaign[i]]

RECURSIVE SumClicks(_)
\* func.sum(ClickUnique.unique_clicks) ... .scalar() or 0
SumClicks(S) ==
    IF S = {} THEN 0
    ELSE LET r == CHOOSE x \in S : TRUE IN r.unique_clicks + SumClicks(S \ {r})

RECURSIVE SumConversions(_)
\* func.sum(Conversion.conversions) ... .scalar() or 0
SumConversions(S) ==
    IF S = {} THEN 0
    ELSE LET r == CHOOSE x \in S : TRUE IN r.conversions + SumConversions(S \ {r})

SetMax(S) == CHOOSE x \in S : \A y \in S : y <= x
SetMin(S) == CHOOSE x \in S : \A y \in S : x <= y

RECURSIVE SetToSeq(_)
\* the rows of an unordered query result, in ascending creator_id order
SetToSeq(S) ==
    IF S = {} THEN <<>>
    ELSE LET m == SetMin(S) IN <<m>> \o SetToSeq(S \ {m})

SeqRange(s) == {s[i] : i \in 1 .. Len(s)}

\* ------------------------------------------------------------------------
\* PlanRequest and its validation
\* ------------------------------------------------------------------------
\* PlanRequest (analytics.py).  include_acct_ids / exclude_acct_ids hold the
\* comma-separated string as the sequence of its comma-separated tokens;
\* <<>> is the empty string or None (both falsy).
PlanRequest(category, advertiser_id, insertion_id, cpc, budget, target_cpa, advertiser_avg_cvr, horizon_days, include_acct_ids, exclude_acct_ids) ==
    [category |-> category, advertiser_id |-> advertiser_id,
     insertion_id |-> insertion_id, cpc |-> cpc, budget |-> budget,
     target_cpa |-> target_cpa, advertiser_avg_cvr |-> advertiser_avg_cvr,
     horizon_days |-> horizon_days, include_acct_ids |-> include_acct_ids,
     exclude_acct_ids |-> exclude_acct_ids]

DetailNoContext == "Either category or advertiser_id must be provided"
DetailNoCpc == "Either insertion_id or cpc must be provided"
DetailBudget == "Budget must be greater than 0"
DetailTargetCpa == "Target CPA must be greater than 0"
DetailHorizon == "Horizon days must be greater than 0"
DetailAvgCvr == "Advertiser average CVR must be between 0 and 1"
DetailInsertion == "Insertion not found"
DetailSmartFailed == "Smart matching failed"
DetailServerError == "Internal Server Error"

\* a budget check that lets a budget of exactly 0 through
BudgetNegative(budget) == RLt(budget, RZero)

\* if plan_request.budget <= 0
BudgetInvalid(budget) == RLe(budget, RZero)

\* The "Validate inputs" block of create_plan and create_smart_plan: the
\* detail of the first check that raises HTTPException(400), "" if none does.
ValidateInputs(req) ==
    IF req.category = "" /\ req.advertiser_id = 0 THEN DetailNoContext
    ELSE IF req.insertion_id = 0 /\ req.cpc = RZero THEN DetailNoCpc
    ELSE IF BudgetInvalid(req.budget) THEN DetailBudget
    ELSE IF ~IsNone(req.target_cpa) /\ RLe(Val(req.target_cpa), RZero) THEN DetailTargetCpa
    ELSE IF req.horizon_days <= 0 THEN DetailHorizon
    ELSE IF /\ ~IsNone(req.advertiser_avg_cvr)
            /\ \/ RLe(Val(req.advertiser_avg_cvr), RZero)
               \/ RLe(RInt(1), Val(req.advertiser_avg_cvr)) THEN DetailAvgCvr
    ELSE ""

\* "Get CPC from insertion if not provided": <<>> when the insertion row is
\* missing (HTTPException 404), else <<cpc>>
ResolveCpc(req) ==
    IF req.cpc = RZero /\ req.insertion_id # 0
    THEN IF req.insertion_id \in InsertionIds
         THEN Some(InsertionCpc[req.insertion_id]) ELSE None
    ELSE Some(req.cpc)

\* ------------------------------------------------------------------------
\* Candidate pool of create_plan
\* ------------------------------------------------------------------------
\* the category / advertiser filter added to the click and creator queries
InContext(adv, req) ==
    IF req.category # "" THEN AdvertiserCategory[adv] = req.category
    ELSE IF req.advertiser_id # 0 THEN adv = req.advertiser_id
    ELSE TRUE

ContextClicks(c, req) ==
    {r \in click_uniques : r.creator_id = c /\ InContext(InsertionAdvertiser(r.insertion_id), req)}

\* creators_query ... .distinct().all(): the creators with a click row in
\* the requested context
FetchCreators(req) ==
    SetToSeq({c \in CreatorIds : ContextClicks(c, req) # {}})

\* str.strip() on the tokens the requests of the model use
Strip(t) == IF t = " A" THEN "A" ELSE IF t = " " THEN "" ELSE t

\* {acct_id.strip() for acct_id in s.split(',') if acct_id.strip()}
ParseAcctIds(tokens) == {Strip(tokens[i]) : i \in 1 .. Len(tokens)} \ {""}

RECURSIVE FilterExcluded(_, _)
\* "First, filter out excluded creators"
FilterExcluded(creators, exclude) ==
    IF creators = <<>> THEN <<>>
    ELSE LET c == Head(creators)
             rest == FilterExcluded(Tail(creators), exclude)
         IN  IF exclude # {} /\ Strip(CreatorAcctId(c)) \in exclude
             THEN rest ELSE <<c>> \o rest

RECURSIVE AddIncluded(_, _, _)
\* "If include list is specified, ensure those creators are added even if
\* not in filtered list": scans the fetched creators, not the creator table
AddIncluded(creators, include, filtered) ==
    IF creators = <<>> THEN filtered
    ELSE LET c == Head(creators)
         IN  IF Strip(CreatorAcctId(c)) \in include /\ c \notin SeqRange(filtered)
             THEN AddIncluded(Tail(creators), include, Append(filtered, c))
             ELSE AddIncluded(Tail(creators), include, filtered)

\* "Apply creator filtering based on Acct IDs"
ApplyAcctIdFilter(creators, req) ==
    IF req.include_acct_ids # <<>> \/ req.exclude_acct_ids # <<>>
    THEN LET include == ParseAcctIds(req.include_acct_ids)
             exclude == ParseAcctIds(req.exclude_acct_ids)
             filtered == FilterExcluded(creators, exclude)
         IN  IF include # {} THEN AddIncluded(creators, include, filtered)
             ELSE filtered
    ELSE creators

DeclinedIds(advertiser_id) ==
    {d.creator_id : d \in {x \in declined_creators : x.advertiser_id = advertiser_id}}

\* "Filter out declined creators for this advertiser"
FilterDeclined(creators, req) ==
    IF req.advertiser_id # 0
    THEN SelectSeq(creators, LAMBDA c : c \notin DeclinedIds(req.advertiser_id))
    ELSE creators

\* the candidate pool create_plan computes statistics for
PlanPool(req) == FilterDeclined(ApplyAcctIdFilter(FetchCreators(req), req), req)

\* ------------------------------------------------------------------------
\* Per-creator statistics of create_plan
\* ------------------------------------------------------------------------
CreatorName(c) == <<"one", "two", "three", "four", "five">>[c]

\* global_baseline_cvr = 0.025
GlobalBaselineCvr == Rat(25, 1000)
\* "Fallback to 30 days if no data"
FallbackHistoricalDays == 30
\* "max 3 per creator"
MaxPlacements == 3
\* "Only pro-rate if we can get at least 10% of the allocation"
ProRateThreshold == Rat(1, 10)
\* max_iterations = len(creator_stats) * 3
IterationsPerCreator == 3

\* the category / advertiser filter create_plan adds to its conversions query
\* (on the advertiser of the ConvUpload)
ContextConversions(c, req) ==
    {r \in conversions : r.creator_id = c /\ InContext(r.upload_advertiser_id, req)}

\* historical_days: max(execution_date) - min(execution_date) over the
\* creator's click rows in context; a NULL or zero difference is falsy
HistoricalDays(c, req) ==
    LET dates == {r.execution_date : r \in ContextClicks(c, req)}
        diff == IF dates = {} THEN 0 ELSE SetMax(dates) - SetMin(dates)
    IN  IF diff # 0 THEN (IF diff < 1 THEN 1 ELSE diff) ELSE FallbackHistoricalDays

\* the expected CVR with its two fallbacks ("Calculate CVR with proper fallbacks")
PlanExpectedCvr(c, total_clicks, total_conversions, advertiser_cvr) ==
    IF total_clicks > 0 /\ total_conversions > 0
    THEN Rat(total_conversions, total_clicks)
    ELSE LET overall_clicks == SumClicks({r \in click_uniques : r.creator_id = c})
             overall_conversions == SumConversions({r \in conversions : r.creator_id = c})
         IN  IF overall_clicks > 0 /\ overall_conversions > 0
             THEN Rat(overall_conversions, overall_clicks)
             ELSE advertiser_cvr

\* expected_cpa = cpc / expected_cvr if expected_cvr > 0 else float('inf')
ExpectedCpa(cpc, expected_cvr) ==
    IF RLt(RZero, expected_cvr) THEN RDiv(cpc, expected_cvr) ELSE Inf

\* a statistics loop that skips the CPA filter
AdmitsEveryCpa(req, expected_cpa) == TRUE

\* "Filter by target CPA (if provided)"
PassesCpaFilter(req, expected_cpa) ==
    IsNone(req.target_cpa) \/ XLe(expected_cpa, Val(req.target_cpa))

\* advertiser_cvr: the request's advertiser_avg_cvr, else the global baseline
AdvertiserCvr(req) ==
    IF ~IsNone(req.advertiser_avg_cvr) THEN Val(req.advertiser_avg_cvr) ELSE GlobalBaselineCvr

\* total_clicks: the historical clicks in context, else the creator's
\* conservative_click_estimate (0 when it has none)
TotalClicks(c, req) ==
    LET hist_clicks == SumClicks(ContextClicks(c, req))
    IN  IF hist_clicks = 0 THEN CreatorClickEstimate(c) ELSE hist_clicks

\* expected_cvr of a creator of the pool
CreatorExpectedCvr(c, req) ==
    PlanExpectedCvr(c, TotalClicks(c, req), SumConversions(ContextConversions(c, req)),
                    AdvertiserCvr(req))

\* The body of the "for creator_index, creator in enumerate(creators)" loop:
\* <<>> when the creator is skipped, else <<the creator_stats dictionary>>
CreatorStat(c, req, cpc) ==
    LET total_clicks == TotalClicks(c, req)
        expected_cvr == CreatorExpectedCvr(c, req)
        expected_cpa == ExpectedCpa(cpc, expected_cvr)
        historical_days == HistoricalDays(c, req)
        clicks_per_day == Rat(total_clicks, IF historical_days < 1 THEN 1 ELSE historical_days)
        expected_clicks == RMul(clicks_per_day, RInt(req.horizon_days))
    IN  IF total_clicks = 0 THEN <<>>
        ELSE IF ~PassesCpaFilter(req, expected_cpa) THEN <<>>
        ELSE << [creator_id |-> c,
                 name |-> CreatorName(c),
                 acct_id |-> CreatorAcctId(c),
                 expected_cvr |-> expected_cvr,
                 expected_cpa |-> expected_cpa,
                 clicks_per_day |-> clicks_per_day,
                 expected_clicks |-> expected_clicks,
                 expected_spend |-> RMul(cpc, expected_clicks),
                 expected_conversions |-> RMul(expected_cvr, expected_clicks),
                 value_ratio |-> IF RLt(RZero, cpc) THEN RDiv(expected_cvr, cpc) ELSE RZero] >>

RECURSIVE CreatorStats(_, _, _)
\* creator_stats after the loop over the pool
CreatorStats(creators, req, cpc) ==
    IF creators = <<>> THEN <<>>
    ELSE CreatorStat(Head(creators), req, cpc) \o CreatorStats(Tail(creators), req, cpc)

\* the sort key: expected_cvr without a CPA target, value_ratio with one
SortKey(req, stat) ==
    IF IsNone(req.target_cpa) THEN stat.expected_cvr ELSE stat.value_ratio

RECURSIVE InsertDescending(_, _, _)
\* insert x behind every element whose key is >= its own (list.sort with
\* reverse=True is stable)
InsertDescending(sorted, x, req) ==
    IF sorted = <<>> THEN <<x>>
    ELSE IF RLe(SortKey(req, x), SortKey(req, Head(sorted)))
         THEN <<Head(sorted)>> \o InsertDescending(Tail(sorted), x, req)
         ELSE <<x>> \o sorted

RECURSIVE SortStats(_, _)
\* creator_stats.sort(key=..., reverse=True)
SortStats(stats, req) ==
    IF stats = <<>> THEN <<>>
    ELSE InsertDescending(SortStats(SubSeq(stats, 1, Len(stats) - 1), req),
                          stats[Len(stats)], req)

\* ------------------------------------------------------------------------
\* PlanCreator and the greedy allocation of create_plan
\* ------------------------------------------------------------------------
\* the fields of PlanCreator without a default value
PlanCreatorRequired ==
    {"creator_id", "name", "acct_id", "expected_cvr", "clicks_per_day",
     "expected_clicks", "expected_spend", "expected_conversions",
     "value_ratio", "recommended_placements"}

\* the fields of PlanCreator that default to None
PlanCreatorOptional == {"expected_cpa", "median_clicks_per_placement"}

\* PlanCreator(**d) raises a ValidationError unless every required field is given
PlanCreatorValidates(d) == PlanCreatorRequired \subseteq DOMAIN d

\* the PlanCreator object built from the keyword arguments d
PlanCreator(d) ==
    [f \in PlanCreatorRequired \cup PlanCreatorOptional |->
        IF f \in DOMAIN d THEN d[f] ELSE None]

\* picked_creators, total_spend, total_conversions, remaining_budget and
\* creator_placement_counts before the first pass; raised is set once a
\* statement of the allocation raises
AllocationStart(req) ==
    [picked_creators |-> <<>>, total_spend |-> RZero, total_conversions |-> RZero,
     remaining_budget |-> req.budget,
     creator_placement_counts |-> [c \in CreatorIds |-> 0],
     raised |-> FALSE, iteration |-> 0]

\* "Can fit full allocation": append PlanCreator(**creator_stat) and book it
AddFull(st, stat) ==
    IF ~PlanCreatorValidates(stat) THEN [st EXCEPT !.raised = TRUE]
    ELSE [st EXCEPT
            !.picked_creators = Append(@, PlanCreator(stat)),
            !.total_spend = RAdd(@, stat.expected_spend),
            !.total_conversions = RAdd(@, stat.expected_conversions),
            !.remaining_budget = RSub(@, stat.expected_spend),
            !.creator_placement_counts[stat.creator_id] = @ + 1]

\* the pro-rated copy of a creator_stat and its booking
AddProRated(st, stat) ==
    LET pro_ratio == RDiv(st.remaining_budget, stat.expected_spend)
        pro_rated_stat ==
            [stat EXCEPT !.expected_clicks = RMul(@, pro_ratio),
                         !.expected_spend = st.remaining_budget,
                         !.expected_conversions = RMul(@, pro_ratio)]
    IN  IF ~PlanCreatorValidates(pro_rated_stat) THEN [st EXCEPT !.raised = TRUE]
        ELSE [st EXCEPT
                !.picked_creators = Append(@, PlanCreator(pro_rated_stat)),
                !.total_spend = RAdd(@, st.remaining_budget),
                !.total_conversions = RAdd(@, pro_rated_stat.expected_conversions),
                !.creator_placement_counts[stat.creator_id] = @ + 1,
                !.remaining_budget = RZero]

UnderCap(st, stat) == st.creator_placement_counts[stat.creator_id] < MaxPlacements

FitsBudget(st, stat) == RLe(stat.expected_spend, st.remaining_budget)

RECURSIVE FirstPass(_, _)
\* "First pass: Add full allocations with placement limits"
FirstPass(stats, st) ==
    IF stats = <<>> \/ st.raised THEN st
    ELSE LET stat == Head(stats)
         IN  IF ~UnderCap(st, stat) THEN FirstPass(Tail(stats), st)
             ELSE IF FitsBudget(st, stat) THEN FirstPass(Tail(stats), AddFull(st, stat))
             ELSE FirstPass(Tail(stats), st)

\* the position a scan in list order stops at, given for each position
\* whether the scan's test succeeds there; 0 if it succeeds nowhere
FirstIndex(hits) ==
    IF \E i \in DOMAIN hits : hits[i]
    THEN CHOOSE i \in DOMAIN hits : hits[i] /\ \A j \in 1 .. (i - 1) : ~hits[j]
    ELSE 0

\* "if pro_ratio > 0.1" for a creator under its cap that does not fit
ProRatable(st, stat) ==
    /\ UnderCap(st, stat)
    /\ RLt(st.remaining_budget, stat.expected_spend)
    /\ RLt(ProRateThreshold, RDiv(st.remaining_budget, stat.expected_spend))

\* "iteration += 1" at the top of the loop body
Counted(st, iteration) == [st EXCEPT !.iteration = iteration]

RECURSIVE FillBudgetUnbroken(_, _, _, _)
\* the while loop without its closing "if not added_creator: break"
FillBudgetUnbroken(stats, st, iteration, max_iterations) ==
    IF st.raised \/ ~RLt(RZero, st.remaining_budget) \/ iteration >= max_iterations
    THEN st
    ELSE LET full == FirstIndex([i \in DOMAIN stats |-> UnderCap(st, stats[i]) /\ FitsBudget(st, stats[i])])
             part == FirstIndex([i \in DOMAIN stats |-> ProRatable(st, stats[i])])
         IN  IF full # 0
             THEN FillBudgetUnbroken(stats, AddFull(Counted(st, iteration + 1), stats[full]),
                                     iteration + 1, max_iterations)
             ELSE IF part # 0
             THEN FillBudgetUnbroken(stats, AddProRated(Counted(st, iteration + 1), stats[part]),
                                     iteration + 1, max_iterations)
             ELSE FillBudgetUnbroken(stats, Counted(st, iteration + 1), iteration + 1, max_iterations)

RECURSIVE FillBudget(_, _, _, _)
\* "Keep trying to fill budget with additional creators": the while loop;
\* st.iteration is the loop counter when the loop is left
FillBudget(stats, st, iteration, max_iterations) ==
    IF st.raised \/ ~RLt(RZero, st.remaining_budget) \/ iteration >= max_iterations
    THEN st
    ELSE LET full == FirstIndex([i \in DOMAIN stats |-> UnderCap(st, stats[i]) /\ FitsBudget(st, stats[i])])
             part == FirstIndex([i \in DOMAIN stats |-> ProRatable(st, stats[i])])
         IN  IF full # 0
             THEN FillBudget(stats, AddFull(Counted(st, iteration + 1), stats[full]),
                             iteration + 1, max_iterations)
             ELSE IF part # 0
             THEN FillBudget(stats, AddProRated(Counted(st, iteration + 1), stats[part]),
                             iteration + 1, max_iterations)
             ELSE Counted(st, iteration + 1)

\* the allocation of create_plan: first pass, then the budget filling loop
\* bounded by len(creator_stats) * 3 iterations
Allocate(stats, req) ==
    FillBudget(stats, FirstPass(stats, AllocationStart(req)), 0,
               Len(stats) * IterationsPerCreator)

\* ------------------------------------------------------------------------
\* SmartMatchingService (smart_matching.py)
\* ------------------------------------------------------------------------
RNeg(a) == <<-a[1], a[2]>>

\* _get_base_creators_query(...).distinct().limit(500).all(): every creator
BaseCreators == SetToSeq(CreatorIds)

\* _get_same_performance_data: clicks and conversions of the creator in the
\* requested context (conversions by the advertiser of their insertion)
SamePerformance(c, req) ==
    [total_clicks |-> SumClicks(ContextClicks(c, req)),
     total_conversions |->
        SumConversions({r \in conversions :
            r.creator_id = c /\ InContext(InsertionAdvertiser(r.insertion_id), req)})]

\* the "Exclude same advertiser/category" filter
OutOfContext(adv, req) ==
    IF req.category # "" THEN AdvertiserCategory[adv] # req.category
    ELSE IF req.advertiser_id # 0 THEN adv # req.advertiser_id
    ELSE TRUE

\* _get_cross_performance_data
CrossPerformance(c, req) ==
    [total_clicks |->
        SumClicks({r \in click_uniques :
            r.creator_id = c /\ OutOfContext(InsertionAdvertiser(r.insertion_id), req)}),
     total_conversions |->
        SumConversions({r \in conversions :
            r.creator_id = c /\ OutOfContext(InsertionAdvertiser(r.insertion_id), req)})]

CvrOf(conv, clicks) == IF clicks > 0 THEN Rat(conv, clicks) ELSE RZero

\* the entry _get_batch_performance_data builds from the two aggregates
BatchEntry(same_data, cross_data) ==
    IF same_data.total_clicks > 0 \/ same_data.total_conversions > 0
    THEN [phase |-> 1,
          total_clicks |-> same_data.total_clicks,
          total_conversions |-> same_data.total_conversions,
          historical_cvr |-> CvrOf(same_data.total_conversions, same_data.total_clicks),
          cross_clicks |-> cross_data.total_clicks,
          cross_conversions |-> cross_data.total_conversions,
          cross_cvr |-> CvrOf(cross_data.total_conversions, cross_data.total_clicks)]
    ELSE IF cross_data.total_clicks > 0 \/ cross_data.total_conversions > 0
    THEN [phase |-> 2, total_clicks |-> 0, total_conversions |-> 0,
          historical_cvr |-> RZero,
          cross_clicks |-> cross_data.total_clicks,
          cross_conversions |-> cross_data.total_conversions,
          cross_cvr |-> CvrOf(cross_data.total_conversions, cross_data.total_clicks)]
    ELSE [phase |-> 3, total_clicks |-> 0, total_conversions |-> 0,
          historical_cvr |-> RZero, cross_clicks |-> 0, cross_conversions |-> 0,
          cross_cvr |-> RZero]

\* _get_batch_performance_data: the phase of one creator and its aggregates
BatchPerformance(c, req) == BatchEntry(SamePerformance(c, req), CrossPerformance(c, req))

\* clicks / max(1, clicks / 100)
RoughClicks(clicks) == RDiv(RInt(clicks), RMax(RInt(1), Rat(clicks, 100)))

\* expected_cvr of _create_performance_data_from_batch
BatchCvr(perf_data, advertiser_avg_cvr) ==
    IF perf_data.phase = 1
    THEN (IF RLt(RZero, perf_data.historical_cvr)
          THEN perf_data.historical_cvr ELSE advertiser_avg_cvr)
    ELSE IF perf_data.phase = 2
    THEN (IF RLt(RZero, perf_data.cross_cvr)
          THEN perf_data.cross_cvr ELSE advertiser_avg_cvr)
    ELSE advertiser_avg_cvr

\* expected_clicks of _create_performance_data_from_batch
BatchClicks(c, perf_data) ==
    IF perf_data.phase = 1 /\ perf_data.total_clicks > 0
    THEN RoughClicks(perf_data.total_clicks)
    ELSE IF perf_data.phase = 2 /\ perf_data.cross_clicks > 0
    THEN RoughClicks(perf_data.cross_clicks)
    ELSE IF CreatorClickEstimate(c) # 0
         THEN RInt(CreatorClickEstimate(c)) ELSE RInt(100)

\* the dictionary _create_performance_data_from_batch returns; expected_cpa
\* is None (<<>>) for a zero expected CVR
PerformanceData(perf_data, cpc, expected_cvr, expected_clicks) ==
    LET performance_clicks ==
            IF perf_data.phase = 1 THEN perf_data.total_clicks
            ELSE IF perf_data.phase = 2 THEN perf_data.cross_clicks ELSE 0
        performance_conversions ==
            IF perf_data.phase = 1 THEN perf_data.total_conversions
            ELSE IF perf_data.phase = 2 THEN perf_data.cross_conversions ELSE 0
    IN  [phase |-> perf_data.phase,
         has_performance |-> performance_clicks > 0 \/ performance_conversions > 0,
         expected_cpa |-> IF RLt(RZero, expected_cvr)
                          THEN Some(RDiv(cpc, expected_cvr)) ELSE None,
         expected_clicks |-> expected_clicks,
         expected_spend |-> RMul(cpc, expected_clicks),
         expected_conversions |-> RMul(expected_clicks, expected_cvr),
         expected_cvr |-> expected_cvr,
         historical_clicks |-> performance_clicks,
         historical_conversions |-> performance_conversions,
         median_clicks_per_placement |-> expected_clicks,
         recommended_placements |-> 1]

\* _create_performance_data_from_batch
CreatePerformanceData(c, perf_data, cpc, advertiser_avg_cvr) ==
    PerformanceData(perf_data, cpc, BatchCvr(perf_data, advertiser_avg_cvr),
                    BatchClicks(c, perf_data))

\* calculate_demographic_similarity for a creator of the modelled store: the
\* creators carry no age_range, gender_skew, location or interests (the
\* columns are nullable), so no dimension is comparable and scores stays empty
DemographicSimilarity(c) == RZero

\* the creator_data dictionary _get_three_phase_creators builds for a creator
\* from its performance_data
CreatorDataOf(c, performance_data) ==
    [creator_id |-> c,
     acct_id |-> CreatorAcctId(c),
     tier |-> performance_data.phase,
     phase |-> performance_data.phase,
     performance_data |-> performance_data,
     sort_key |-> IF performance_data.phase = 1
                  THEN (IF IsNone(performance_data.expected_cpa) THEN Inf
                        ELSE Val(performance_data.expected_cpa))
                  ELSE IF performance_data.phase = 2
                  THEN RNeg(performance_data.expected_cvr)
                  ELSE RZero,
     performance_score |-> IF performance_data.phase <= 2 THEN RInt(1) ELSE RZero,
     demographic_score |-> RZero,
     topic_score |-> RZero,
     similarity_score |-> RZero,
     combined_score |-> RZero]

\* the body of the loop of _get_three_phase_creators up to the CPA constraint
CreatorData(c, req, cpc, advertiser_avg_cvr) ==
    CreatorDataOf(c, CreatePerformanceData(c, BatchPerformance(c, req), cpc,
                                           advertiser_avg_cvr))

\* "Apply CPA constraint for Phase 1 only"
KeptByThreePhase(cd, target_cpa) ==
    IF cd.phase = 1
    THEN IsNone(target_cpa) \/ RLe(Val(cd.performance_data.expected_cpa), Val(target_cpa))
    ELSE TRUE

\* a comparison that also moves an element in front of its equals
TierKeyLessOrEqual(t1, k1, t2, k2) ==
    t1 < t2 \/ (t1 = t2 /\ XLe(k1, k2))

\* (tier, key) < (tier, key) on the tuples the two sorts compare
TierKeyLess(t1, k1, t2, k2) ==
    t1 < t2 \/ (t1 = t2 /\ ~XLe(k2, k1))

\* the second component of the sort key: sort_key in
\* _get_three_phase_creators, -combined_score in find_smart_creators
TierKey(cd, final) == IF final THEN RNeg(cd.combined_score) ELSE cd.sort_key

RECURSIVE InsertByTier(_, _, _)
\* insert x behind every element that does not sort after it (list.sort is stable)
InsertByTier(sorted, x, final) ==
    IF sorted = <<>> THEN <<x>>
    ELSE IF TierKeyLess(x.tier, TierKey(x, final),
                        Head(sorted).tier, TierKey(Head(sorted), final))
         THEN <<x>> \o sorted
         ELSE <<Head(sorted)>> \o InsertByTier(Tail(sorted), x, final)

RECURSIVE SortByTier(_, _)
\* list.sort(key=lambda x: (x['tier'], key))
SortByTier(list, final) ==
    IF list = <<>> THEN <<>>
    ELSE InsertByTier(SortByTier(SubSeq(list, 1, Len(list) - 1), final),
                      list[Len(list)], final)

\* all_creators.append(creator_data) under the CPA constraint
ThreePhaseKeep(cd, target_cpa) ==
    IF KeptByThreePhase(cd, target_cpa) THEN <<cd>> ELSE <<>>

RECURSIVE ThreePhaseList(_, _, _, _)
\* all_creators after the loop of _get_three_phase_creators
ThreePhaseList(creators, req, cpc, advertiser_avg_cvr) ==
    IF creators = <<>> THEN <<>>
    ELSE ThreePhaseKeep(CreatorData(Head(creators), req, cpc, advertiser_avg_cvr),
                        req.target_cpa)
         \o ThreePhaseList(Tail(creators), req, cpc, advertiser_avg_cvr)

\* _get_three_phase_creators: classify, drop phase-1 creators over the CPA
\* target, sort by (tier, sort_key)
GetThreePhaseCreators(creators, req, cpc, advertiser_avg_cvr) ==
    SortByTier(ThreePhaseList(creators, req, cpc, advertiser_avg_cvr), FALSE)

\* _calculate_final_scores for one creator_data
FinalScore(cd) ==
    LET performance_score ==
            IF cd.performance_data.has_performance THEN RInt(1) ELSE RZero
        demographic_score == DemographicSimilarity(cd.creator_id)
    IN  [cd EXCEPT
            !.performance_score = performance_score,
            !.demographic_score = demographic_score,
            !.combined_score =
                RAdd(RAdd(RMul(performance_score, Rat(5, 10)),
                          RMul(demographic_score, Rat(2, 10))),
                     RAdd(RMul(cd.topic_score, Rat(2, 10)),
                          RMul(cd.similarity_score, Rat(1, 10))))]

\* the declared parameters of find_smart_creators (besides self)
FindSmartCreatorsParameters ==
    {"advertiser_id", "category", "target_demographics", "budget", "cpc",
     "target_cpa", "horizon_days", "advertiser_avg_cvr", "include_acct_ids",
     "exclude_acct_ids"}

\* _calculate_final_scores and the final sort by (tier, -combined_score)
ScoreAndSort(three_phase) ==
    SortByTier([i \in 1 .. Len(three_phase) |-> FinalScore(three_phase[i])], TRUE)

\* find_smart_creators: the fetched creators after the Acct ID filter,
\* classified, scored and sorted
FindSmartCreators(req, cpc, advertiser_avg_cvr) ==
    ScoreAndSort(GetThreePhaseCreators(ApplyAcctIdFilter(BaseCreators, req), req, cpc,
                                       advertiser_avg_cvr))

\* ------------------------------------------------------------------------
\* create_smart_plan after find_smart_creators has returned
\* ------------------------------------------------------------------------
\* _batch_calculate_performance_data: the creators with a click row in the
\* context, each with the expected CVR of the same fallback chain as create_plan
\* on the global baseline
InBatch(c, req) == ContextClicks(c, req) # {}

BatchExpectedCvr(c, req) ==
    PlanExpectedCvr(c, SumClicks(ContextClicks(c, req)),
                    SumConversions(ContextConversions(c, req)), GlobalBaselineCvr)

\* the expected_cpa the Phase 1 scan of create_smart_plan compares with the target
SmartScanCpa(cd, req, cpc) ==
    IF InBatch(cd.creator_id, req)
    THEN ExpectedCpa(cpc, BatchExpectedCvr(cd.creator_id, req))
    ELSE IF IsNone(cd.performance_data.expected_cpa) THEN Inf
         ELSE Val(cd.performance_data.expected_cpa)

SmartAdmitted(cd, req, cpc) ==
    ~IsNone(req.target_cpa) /\ XLe(SmartScanCpa(cd, req, cpc), Val(req.target_cpa))

RECURSIVE InsertByCpa(_, _)
InsertByCpa(sorted, x) ==
    IF sorted = <<>> THEN <<x>>
    ELSE IF RLt(Val(x.performance_data.expected_cpa),
                Val(Head(sorted).performance_data.expected_cpa))
         THEN <<x>> \o sorted
         ELSE <<Head(sorted)>> \o InsertByCpa(Tail(sorted), x)

RECURSIVE SortByCpa(_)
\* phase1_creators.sort(key=lambda x: x['performance_data']['expected_cpa'])
SortByCpa(list) ==
    IF list = <<>> THEN <<>>
    ELSE InsertByCpa(SortByCpa(SubSeq(list, 1, Len(list) - 1)), list[Len(list)])

\* the PlanCreator keyword arguments of a Phase 1 placement
SmartPlanCreatorArgs(cd, req, cpc) ==
    LET performance_data == cd.performance_data
    IN  [creator_id |-> cd.creator_id,
         name |-> CreatorName(cd.creator_id),
         acct_id |-> cd.acct_id,
         expected_cvr |-> performance_data.expected_cvr,
         expected_cpa |-> Val(performance_data.expected_cpa),
         clicks_per_day |-> RDiv(performance_data.expected_clicks, RInt(req.horizon_days)),
         expected_clicks |-> performance_data.expected_clicks,
         expected_spend |-> RMul(cpc, performance_data.expected_clicks),
         expected_conversions |-> performance_data.expected_conversions,
         value_ratio |-> cd.combined_score,
         recommended_placements |-> 1,
         median_clicks_per_placement |-> performance_data.median_clicks_per_placement]

\* one iteration of "Allocate Phase 1 creators" for creator_data cd with the
\* PlanCreator arguments args; last keeps cd, whose creator_id and
\* expected_clicks the later loop reuses
SmartPhase1Step(st, cd, args) ==
    IF UnderCap(st, args) /\ FitsBudget(st, args)
    THEN [st EXCEPT
             !.last = Some(cd),
             !.picked_creators = Append(@, PlanCreator(args)),
             !.total_spend = RAdd(@, args.expected_spend),
             !.total_conversions = RAdd(@, args.expected_conversions),
             !.remaining_budget = RSub(@, args.expected_spend),
             !.creator_placement_counts[cd.creator_id] = 1]
    ELSE [st EXCEPT !.last = Some(cd)]

RECURSIVE SmartPhase1(_, _, _, _)
\* "Allocate Phase 1 creators": the loop breaks once remaining_budget <= 0
SmartPhase1(list, st, req, cpc) ==
    IF list = <<>> \/ ~RLt(RZero, st.remaining_budget) THEN st
    ELSE SmartPhase1(Tail(list),
                     SmartPhase1Step(st, Head(list),
                                     SmartPlanCreatorArgs(Head(list), req, cpc)),
                     req, cpc)

\* the update of an existing pick by one more placement
SmartPhase3Update(st, creator_id, existing, new_placements, expected_clicks, expected_spend, expected_conversions) ==
    [st EXCEPT
        !.picked_creators[existing] =
            [@ EXCEPT
                !.expected_clicks = RMul(expected_clicks, RInt(new_placements)),
                !.expected_spend = RMul(expected_spend, RInt(new_placements)),
                !.expected_conversions = RMul(expected_conversions, RInt(new_placements)),
                !.recommended_placements = new_placements],
        !.total_spend = RAdd(@, expected_spend),
        !.total_conversions = RAdd(@, expected_conversions),
        !.remaining_budget = RSub(@, expected_spend),
        !.creator_placement_counts[creator_id] = new_placements]

\* one iteration of "Phase 3: Add more placements to existing creators"
\* for the pick found at position existing (0 if none)
SmartPhase3Step(st, creator_id, existing, expected_clicks, expected_spend, expected_conversions) ==
    IF RLe(expected_spend, st.remaining_budget) /\ existing # 0
    THEN SmartPhase3Update(st, creator_id, existing,
                           st.picked_creators[existing].recommended_placements + 1,
                           expected_clicks, expected_spend, expected_conversions)
    ELSE st

\* the position of creator_id in picked_creators, 0 if it has no pick
ExistingPick(picked_creators, creator_id) ==
    FirstIndex([i \in DOMAIN picked_creators |-> picked_creators[i].creator_id = creator_id])

RECURSIVE SmartPhase3(_, _, _, _)
\* "Phase 3: Add more placements to existing creators": one iteration per
\* Phase 1 creator; the statements that would read the loop variable and
\* test the cap sit behind the break, so every iteration works on the
\* creator_id and expected_clicks left by Phase 1 and on the expected
\* conversions of the last matched creator
SmartPhase3(n, st, cpc, last_matched) ==
    IF n = 0 \/ ~RLt(RZero, st.remaining_budget) THEN st
    ELSE SmartPhase3(n - 1,
                     SmartPhase3Step(st, Val(st.last).creator_id,
                         ExistingPick(st.picked_creators, Val(st.last).creator_id),
                         Val(st.last).performance_data.expected_clicks,
                         RMul(cpc, Val(st.last).performance_data.expected_clicks),
                         last_matched.performance_data.expected_conversions),
                     cpc, last_matched)

\* the allocation state of create_smart_plan before Phase 1
SmartStart(req) ==
    [picked_creators |-> <<>>, total_spend |-> RZero,
     total_conversions |-> RZero, remaining_budget |-> req.budget,
     creator_placement_counts |-> [c \in CreatorIds |-> 0],
     raised |-> FALSE, iteration |-> 0, last |-> None]

\* Phase 1 and Phase 3 on the sorted phase1_creators; Phase 3 makes one
\* iteration per Phase 1 creator, none when the list is empty
SmartPhases(phase1_creators, matched, req, cpc) ==
    SmartPhase3(Len(phase1_creators),
                SmartPhase1(phase1_creators, SmartStart(req), req, cpc),
                cpc, matched[Len(matched)])

\* the statements of create_smart_plan from "Convert to PlanCreator format"
\* to the recalculated totals.  The Skipping message of the Phase 1 scan
\* formats target_cpa with :.2f, which raises when target_cpa is None.  The
\* creators of the modelled store have no CreatorVector row, so the vector
\* fallback finds no anchor vector and allocates nothing.
SmartAllocate(matched, req, cpc) ==
    IF IsNone(req.target_cpa) /\ matched # <<>>
    THEN [SmartStart(req) EXCEPT !.raised = TRUE]
    ELSE SmartPhases(SortByCpa(SelectSeq(matched, LAMBDA cd : SmartAdmitted(cd, req, cpc))),
                     matched, req, cpc)

\* ------------------------------------------------------------------------
\* The handlers
\* ------------------------------------------------------------------------
\* PlanResponse
PlanResponse(picked_creators, total_spend, total_conversions, budget) ==
    [picked_creators |-> picked_creators,
     total_spend |-> total_spend,
     total_conversions |-> total_conversions,
     blended_cpa |-> IF RLt(RZero, total_conversions)
                     THEN RDiv(total_spend, total_conversions) ELSE RZero,
     budget_utilization |-> IF RLt(RZero, budget)
                            THEN RDiv(total_spend, budget) ELSE RZero]

\* PlanResponse(picked_creators=[], total_spend=0.0, ...)
EmptyPlan ==
    [picked_creators |-> <<>>, total_spend |-> RZero, total_conversions |-> RZero,
     blended_cpa |-> RZero, budget_utilization |-> RZero]

\* What a call leaves to observe: the answer (status, detail, plan or matched
\* list) and the intermediate lists the handler built on the way
Answer(op, req, status, detail, fetched, pool, creator_stats, alloc, plan, matched) ==
    [op |-> op, req |-> req, status |-> status, detail |-> detail,
     fetched |-> fetched, pool |-> pool, creator_stats |-> creator_stats,
     alloc |-> alloc, plan |-> plan, matched |-> matched]

Rejected(op, req, status, detail, fetched) ==
    Answer(op, req, status, detail, fetched, <<>>, <<>>, AllocationStart(req), EmptyPlan, <<>>)

\* create_plan (POST /plan)
CreatePlanAnswer(req) ==
    LET detail == ValidateInputs(req)
        cpc_found == ResolveCpc(req)
        cpc == Val(cpc_found)
        creators == PlanPool(req)
        creator_stats == SortStats(CreatorStats(creators, req, cpc), req)
        alloc == Allocate(creator_stats, req)
    IN  IF detail # "" THEN Rejected("create_plan", req, 400, detail, FALSE)
        ELSE IF IsNone(cpc_found)
        THEN Rejected("create_plan", req, 404, DetailInsertion, FALSE)
        ELSE IF creators = <<>>
        THEN Answer("create_plan", req, 200, "", TRUE, creators, <<>>,
                    AllocationStart(req), EmptyPlan, <<>>)
        ELSE IF alloc.raised
        THEN \* the ValidationError of PlanCreator(**creator_stat) is not caught
             Answer("create_plan", req, 500, DetailServerError, TRUE, creators,
                    creator_stats, alloc, EmptyPlan, <<>>)
        ELSE Answer("create_plan", req, 200, "", TRUE, creators, creator_stats, alloc,
                    PlanResponse(alloc.picked_creators, alloc.total_spend,
                                 alloc.total_conversions, req.budget),
                    <<>>)

\* advertiser_avg_cvr=plan_request.advertiser_avg_cvr or 0.025
AvgCvrOrDefault(req) ==
    IF IsNone(req.advertiser_avg_cvr) \/ Val(req.advertiser_avg_cvr) = RZero
    THEN GlobalBaselineCvr ELSE Val(req.advertiser_avg_cvr)

\* the keyword arguments create_smart_plan passes to find_smart_creators
SmartPlanCallKeywords ==
    {"advertiser_id", "category", "target_demographics", "budget", "cpc",
     "target_cpa", "horizon_days", "advertiser_avg_cvr", "include_acct_ids",
     "exclude_acct_ids", "batch_performance_data"}

\* a call with a keyword the function does not declare raises TypeError
CallAccepted(keywords, parameters) == keywords \subseteq parameters

RECURSIVE SpendOf(_)
\* sum(pc.expected_spend for pc in picked_creators)
SpendOf(picked) ==
    IF picked = <<>> THEN RZero
    ELSE RAdd(Head(picked).expected_spend, SpendOf(Tail(picked)))

RECURSIVE ConversionsOf(_)
\* sum(pc.expected_conversions for pc in picked_creators)
ConversionsOf(picked) ==
    IF picked = <<>> THEN RZero
    ELSE RAdd(Head(picked).expected_conversions, ConversionsOf(Tail(picked)))

\* what create_smart_plan returns for the matched creators and their allocation
SmartPlanResult(req, matched, alloc) ==
    IF matched = <<>>
    THEN Answer("create_smart_plan", req, 200, "", TRUE,
                ApplyAcctIdFilter(BaseCreators, req), <<>>,
                AllocationStart(req), EmptyPlan, matched)
    ELSE IF alloc.raised
    THEN Rejected("create_smart_plan", req, 500, DetailSmartFailed, TRUE)
    ELSE Answer("create_smart_plan", req, 200, "", TRUE,
                ApplyAcctIdFilter(BaseCreators, req), <<>>,
                [f \in DOMAIN AllocationStart(req) |-> alloc[f]],
                PlanResponse(alloc.picked_creators, SpendOf(alloc.picked_creators),
                             ConversionsOf(alloc.picked_creators), req.budget),
                matched)

\* create_smart_plan once find_smart_creators has returned matched
SmartPlanFrom(req, cpc, matched) ==
    SmartPlanResult(req, matched, SmartAllocate(matched, req, cpc))

\* the try block of create_smart_plan: every exception raised inside it is
\* turned into HTTPException(500, "Smart matching failed: ...")
SmartPlanTry(req, cpc) ==
    IF ~CallAccepted(SmartPlanCallKeywords, FindSmartCreatorsParameters)
    THEN \* _batch_calculate_performance_data has queried the creators
         Rejected("create_smart_plan", req, 500, DetailSmartFailed, TRUE)
    ELSE SmartPlanFrom(req, cpc, FindSmartCreators(req, cpc, AvgCvrOrDefault(req)))

\* data['phase'] of _batch_calculate_performance_data
BatchCalculatedPhase(total_clicks, total_conversions, overall_clicks, overall_conversions) ==
    IF total_clicks > 0 /\ total_conversions > 0 THEN 1
    ELSE IF overall_clicks > 0 /\ overall_conversions > 0 THEN 2
    ELSE 3

\* _batch_calculate_performance_data: an entry with a phase for every
\* creator with a click row in the context
BatchCalculatePerformanceData(req) ==
    {[creator_id |-> c,
      phase |-> BatchCalculatedPhase(
                    SumClicks(ContextClicks(c, req)),
                    SumConversions(ContextConversions(c, req)),
                    SumClicks({r \in click_uniques : r.creator_id = c}),
                    SumConversions({r \in conversions : r.creator_id = c}))] :
        c \in {b \in CreatorIds : InBatch(b, req)}}

\* the call once batch_performance_data has been computed
WithBatch(answer, batch_performance_data) ==
    answer @@ [batch_performance_data |-> batch_performance_data]

\* create_smart_plan (POST /plan-smart)
CreateSmartPlanAnswer(req) ==
    IF ValidateInputs(req) # ""
    THEN Rejected("create_smart_plan", req, 400, ValidateInputs(req), FALSE)
    ELSE IF IsNone(ResolveCpc(req))
    THEN Rejected("create_smart_plan", req, 404, DetailInsertion, FALSE)
    ELSE WithBatch(SmartPlanTry(req, Val(ResolveCpc(req))), BatchCalculatePerformanceData(req))

\* SmartMatchingService.find_smart_creators called on its own, with the
\* arguments taken from the fields of a request
FindSmartCreatorsAnswer(req) ==
    Answer("find_smart_creators", req, 200, "", TRUE,
           ApplyAcctIdFilter(BaseCreators, req), <<>>,
           AllocationStart(req), EmptyPlan,
           FindSmartCreators(req, req.cpc, AvgCvrOrDefault(req)))

\* ------------------------------------------------------------------------
\* Stored histories and requests of the model
\* ------------------------------------------------------------------------
ClickRow(c, insertion_id, execution_date, unique_clicks) ==
    [creator_id |-> c, insertion_id |-> insertion_id,
     execution_date |-> execution_date, unique_clicks |-> unique_clicks]

ConversionRow(c, insertion_id, upload_advertiser_id, n) ==
    [creator_id |-> c, insertion_id |-> insertion_id,
     upload_advertiser_id |-> upload_advertiser_id, conversions |-> n]

HistoryNames ==
    {"none", "high", "low", "noconv", "cross", "twodates", "zeroclicks", "overall"}

\* the click rows of a creator with the named history
HistoryClicks(c, h) ==
    IF h \in {"high", "low", "noconv", "overall"} THEN {ClickRow(c, 1, 1, 100)}
    ELSE IF h = "cross" THEN {ClickRow(c, 2, 1, 80)}
    ELSE IF h = "twodates" THEN {ClickRow(c, 1, 1, 30), ClickRow(c, 1, 3, 30)}
    ELSE IF h = "zeroclicks" THEN {ClickRow(c, 1, 1, 0)}
    ELSE {}

\* the conversion rows of a creator with the named history
HistoryConversions(c, h) ==
    IF h = "high" THEN {ConversionRow(c, 1, 1, 10)}
    ELSE IF h = "low" THEN {ConversionRow(c, 1, 1, 2)}
    ELSE IF h = "cross" THEN {ConversionRow(c, 2, 2, 4)}
    ELSE IF h = "twodates" THEN {ConversionRow(c, 1, 1, 6)}
    ELSE IF h = "overall" THEN {ConversionRow(c, 2, 2, 5)}
    ELSE {}

\* DeclinedCreator rows satisfy CHECK (creator_id != advertiser_id)
DeclinedChoices == {{}, {[creator_id |-> 2, advertiser_id |-> 1]}}

Budgets == {RInt(5), RInt(10), RInt(150), RInt(1000)}
TargetCpas == {None, Some(RInt(10)), Some(RInt(50))}
Contexts == {<<"catA", 0>>, <<"", 1>>}
AcctIdFilters == {<<<<>>, <<>>>>, <<<<"A">>, <<>>>>, <<<<>>, <<"A">>>>,
                  <<<<"A">>, <<"A">>>>, <<<<" A", "">>, <<"B">>>>}
\* requests that pass validation and give the CPC themselves
DirectRequests ==
    {PlanRequest(ctx[1], ctx[2], 0, RInt(1), budget, target_cpa, None, 30, f[1], f[2]) :
        ctx \in Contexts, budget \in Budgets, target_cpa \in TargetCpas, f \in AcctIdFilters}

BaseRequest == PlanRequest("catA", 0, 0, RInt(1), RInt(150), Some(RInt(10)), None, 30, <<>>, <<>>)

\* variations of one valid request: other ways to be valid, and each way to
\* be invalid, alone and in pairs
VariedRequests ==
    {[BaseRequest EXCEPT !.cpc = RZero, !.insertion_id = 1],
     [BaseRequest EXCEPT !.cpc = RZero, !.insertion_id = 9],
     [BaseRequest EXCEPT !.insertion_id = 1],
     [BaseRequest EXCEPT !.advertiser_id = 1],
     [BaseRequest EXCEPT !.advertiser_avg_cvr = Some(Rat(1, 20)), !.target_cpa = Some(RInt(50))],
     [BaseRequest EXCEPT !.category = ""],
     [BaseRequest EXCEPT !.cpc = RZero],
     [BaseRequest EXCEPT !.budget = RZero],
     [BaseRequest EXCEPT !.budget = RInt(-5)],
     [BaseRequest EXCEPT !.target_cpa = Some(RZero)],
     [BaseRequest EXCEPT !.target_cpa = Some(RInt(-1))],
     [BaseRequest EXCEPT !.horizon_days = 0],
     [BaseRequest EXCEPT !.horizon_days = -1],
     [BaseRequest EXCEPT !.advertiser_avg_cvr = Some(RInt(1))],
     [BaseRequest EXCEPT !.advertiser_avg_cvr = Some(RZero)],
     [BaseRequest EXCEPT !.category = "", !.budget = RZero],
     [BaseRequest EXCEPT !.cpc = RZero, !.horizon_days = 0],
     [BaseRequest EXCEPT !.budget = RZero, !.target_cpa = Some(RZero)],
     [BaseRequest EXCEPT !.target_cpa = Some(RZero), !.horizon_days = 0]}

Requests == DirectRequests \cup VariedRequests

Idle == Answer("idle", BaseRequest, 0, "", FALSE, <<>>, <<>>, AllocationStart(BaseRequest), EmptyPlan, <<>>)

\* a planning call that ends its session by discarding the rows it read
DiscardedByPlanning(rows) == {}

\* the rows of a table after a planning call: create_plan and
\* create_smart_plan only query the session (no db.add, db.delete, db.commit)
StoredAfterPlanning(rows) == rows

\* ------------------------------------------------------------------------
\* The state machine
\* ------------------------------------------------------------------------
Init ==
    /\ \E history \in [CreatorIds -> HistoryNames] :
          /\ click_uniques = UNION {HistoryClicks(c, history[c]) : c \in CreatorIds}
          /\ conversions = UNION {HistoryConversions(c, history[c]) : c \in CreatorIds}
    /\ declined_creators \in DeclinedChoices
    /\ plans = {}
    /\ call = Idle

\* POST /plan
CreatePlan ==
    /\ call.op = "idle"
    /\ \E req \in Requests : call' = CreatePlanAnswer(req)
    /\ click_uniques' = StoredAfterPlanning(click_uniques)
    /\ conversions' = StoredAfterPlanning(conversions)
    /\ declined_creators' = StoredAfterPlanning(declined_creators)
    /\ UNCHANGED plans

\* POST /plan-smart
CreateSmartPlan ==
    /\ call.op = "idle"
    /\ \E req \in Requests : call' = CreateSmartPlanAnswer(req)
    /\ click_uniques' = StoredAfterPlanning(click_uniques)
    /\ conversions' = StoredAfterPlanning(conversions)
    /\ declined_creators' = StoredAfterPlanning(declined_creators)
    /\ UNCHANGED plans

\* SmartMatchingService(db).find_smart_creators(...)
CallFindSmartCreators ==
    /\ call.op = "idle"
    /\ \E req \in DirectRequests : call' = FindSmartCreatorsAnswer(req)
    /\ UNCHANGED <<click_uniques, conversions, declined_creators, plans>>

\* the answer is handed to the caller; the service waits for the next call
Respond ==
    /\ call.op # "idle"
    /\ call' = Idle
    /\ UNCHANGED <<click_uniques, conversions, declined_creators, plans>>

Next == CreatePlan \/ CreateSmartPlan \/ CallFindSmartCreators \/ Respond

Spec == Init /\ [][Next]_vars

\* ------------------------------------------------------------------------
\* Properties of the planning endpoints
\* ------------------------------------------------------------------------
\* the call answered in this state is a planning request
Planned == call.op \in {"create_plan", "create_smart_plan"}

\* the request passes validation and its CPC can be resolved
ValidRequest(req) == ValidateInputs(req) = "" /\ ~IsNone(ResolveCpc(req))

\* the messages of the constraints of C4 that a request violates
Violations(req) ==
    {d \in {DetailNoContext, DetailNoCpc, DetailBudget, DetailTargetCpa, DetailHorizon} :
        \/ d = DetailNoContext /\ req.category = "" /\ req.advertiser_id = 0
        \/ d = DetailNoCpc /\ req.insertion_id = 0 /\ req.cpc = RZero
        \/ d = DetailBudget /\ RLe(req.budget, RZero)
        \/ d = DetailTargetCpa /\ ~IsNone(req.target_cpa) /\ RLe(Val(req.target_cpa), RZero)
        \/ d = DetailHorizon /\ req.horizon_days <= 0}

\* expected CPA of creator c for the request, as create_plan computes it
PlanCpa(c, req) == ExpectedCpa(Val(ResolveCpc(req)), CreatorExpectedCvr(c, req))

\* the creators of a list of statistics or of picked creators
IdsOf(list) == {list[i].creator_id : i \in DOMAIN list}

\* a plan with at least one placement was returned
PlacementReturned == Planned /\ call.status = 200 /\ call.plan.picked_creators # <<>>

\* C1: for a returned plan of a request with budget > 0, the expected_spend
\* of its allocations sums to at most the budget, and budget_utilization is
\* in [0, 1].
C1_SpendWithinBudget ==
    (Planned /\ call.status = 200 /\ RLt(RZero, call.req.budget)) =>
        /\ RLe(SpendOf(call.plan.picked_creators), call.req.budget)
        /\ RLe(RZero, call.plan.budget_utilization)
        /\ RLe(call.plan.budget_utilization, RInt(1))

\* C2: within one returned plan no creator holds more than 3 placements.
C2_AtMostThreePlacements ==
    (Planned /\ call.status = 200) =>
        \A c \in CreatorIds :
            Cardinality({i \in DOMAIN call.plan.picked_creators :
                            call.plan.picked_creators[i].creator_id = c}) <= 3

C4_RejectedBeforeFetch ==
    (Planned /\ Violations(call.req) # {}) =>
        /\ call.status = 400
        /\ call.detail \in Violations(call.req)
        /\ ~call.fetched
        /\ call.pool = <<>>
        /\ call.creator_stats = <<>>
        /\ call.matched = <<>>
        /\ call.plan = EmptyPlan

\* C4 witness: a request violating two constraints was rejected unfetched
C4_Witness ==
    /\ Planned
    /\ Cardinality(Violations(call.req)) = 2
    /\ call.status = 400
    /\ ~call.fetched

\* the statistics dictionary of creator c, <<>> when create_plan skips it
StatOf(c, req) == CreatorStat(c, req, Val(ResolveCpc(req)))

\* no creator of the pool can be given one full placement from the budget
BudgetTooSmall(req) ==
    \A c \in SeqRange(PlanPool(req)) :
        StatOf(c, req) # <<>> => RLt(req.budget, StatOf(c, req)[1].expected_spend)

\* C5: a valid request whose candidate pool is empty, whose store holds no
\* conversion at all, or whose budget is too small for any single placement
\* is answered with a plan (status 200), never with an error.
C5_DegenerateRequestsGivePlan ==
    (/\ Planned
     /\ ValidRequest(call.req)
     /\ \/ PlanPool(call.req) = <<>>
        \/ conversions = {}
        \/ BudgetTooSmall(call.req)) =>
        call.status = 200

\* creator c has clicks and conversions in the requested context, passes the
\* CPA filter and costs no more than the budget for one placement
GoodCandidate(c, req) ==
    /\ c \in SeqRange(PlanPool(req))
    /\ SumClicks(ContextClicks(c, req)) > 0
    /\ SumConversions(ContextConversions(c, req)) > 0
    /\ StatOf(c, req) # <<>>
    /\ IsNone(req.target_cpa) \/ XLe(PlanCpa(c, req), Val(req.target_cpa))
    /\ RLe(StatOf(c, req)[1].expected_spend, req.budget)

\* C6: for a valid /plan request with at least one such candidate,
\* create_plan answers 200 with a non-empty picked_creators list,
\* total_spend > 0 and total_conversions > 0.
C6_GoodCandidateIsPicked ==
    (/\ call.op = "create_plan"
     /\ ValidRequest(call.req)
     /\ \E c \in CreatorIds : GoodCandidate(c, call.req)) =>
        /\ call.status = 200
        /\ call.plan.picked_creators # <<>>
        /\ RLt(RZero, call.plan.total_spend)
        /\ RLt(RZero, call.plan.total_conversions)

\* C7: with a single candidate of spend s per placement and a budget that
\* leaves, after k < 3 full placements, a remainder r with 0 < r < s and
\* r / s >= 0.1 (0.1 included), create_plan adds one fractional placement of
\* spend r after the k full ones: k + 1 picks, remaining budget 0 and
\* budget_utilization 1.
C7_FractionalPlacementFillsBudget ==
    (/\ call.op = "create_plan"
     /\ ValidRequest(call.req)
     /\ Len(call.creator_stats) = 1) =>
        LET s == call.creator_stats[1].expected_spend
            budget == call.req.budget
        IN  \A k \in 0 .. 2 :
                LET r == RSub(budget, RMul(RInt(k), s))
                IN  (RLt(RZero, r) /\ RLt(r, s) /\ RLe(Rat(1, 10), RDiv(r, s))) =>
                        /\ call.status = 200
                        /\ Len(call.plan.picked_creators) = k + 1
                        /\ call.plan.picked_creators[k + 1].expected_spend = r
                        /\ call.alloc.remaining_budget = RZero
                        /\ call.plan.budget_utilization = RInt(1)

\* the position of creator c's first placement in a picked list, 0 if none
FirstPick(picked, c) ==
    IF c \in IdsOf(picked)
    THEN SetMin({i \in DOMAIN picked : picked[i].creator_id = c}) ELSE 0

\* C8: without a target CPA every candidate with history of its own is
\* admitted, and of two such candidates that both fit the budget the one with
\* the lower expected CPA is allocated before the other.
C8_LowerCpaAllocatedFirst ==
    (/\ Planned
     /\ ValidRequest(call.req)
     /\ IsNone(call.req.target_cpa)) =>
        \A a, b \in CreatorIds :
            (/\ GoodCandidate(a, call.req)
             /\ GoodCandidate(b, call.req)
             /\ ~IsInf(PlanCpa(b, call.req))
             /\ RLt(PlanCpa(a, call.req), PlanCpa(b, call.req))
             /\ RLe(RAdd(StatOf(a, call.req)[1].expected_spend,
                         StatOf(b, call.req)[1].expected_spend), call.req.budget)) =>
                /\ call.status = 200
                /\ FirstPick(call.plan.picked_creators, a) > 0
                /\ FirstPick(call.plan.picked_creators, b) > 0
                /\ FirstPick(call.plan.picked_creators, a)
                     < FirstPick(call.plan.picked_creators, b)

\* C9: the candidate pool holds no creator whose account id is in the
\* request's exclude set, also when the id is in the include set as well.
C9_ExcludedNeverInPool ==
    call.op # "idle" =>
        \A c \in SeqRange(call.pool) \cup IdsOf(call.matched) :
            CreatorAcctId(c) \notin ParseAcctIds(call.req.exclude_acct_ids)

\* C10: for a request naming an advertiser, no creator recorded as declined
\* by that advertiser is in the candidate pool used for planning.
C10_DeclinedNeverInPool ==
    (call.op # "idle" /\ call.req.advertiser_id # 0) =>
        \A c \in SeqRange(call.pool) \cup IdsOf(call.matched) :
            c \notin DeclinedIds(call.req.advertiser_id)

\* C11: a creator whose account id is on the include list and not on the
\* exclude list (and who has not declined the advertiser) is in the candidate
\* pool, also when the fetch for the category or advertiser did not return it.
C11_IncludedAlwaysInPool ==
    ((call.op = "create_plan" /\ call.fetched) \/ call.op = "find_smart_creators") =>
        \A c \in CreatorIds :
            (/\ CreatorAcctId(c) \in ParseAcctIds(call.req.include_acct_ids)
             /\ CreatorAcctId(c) \notin ParseAcctIds(call.req.exclude_acct_ids)
             /\ c \notin DeclinedIds(call.req.advertiser_id)) =>
                c \in SeqRange(call.pool)

\* the position of creator c in a sequence of creator ids
IndexOf(ids, c) == CHOOSE i \in DOMAIN ids : ids[i] = c

\* the candidates a and b, a before b in the list, are in the order of
\* create_plan's sort: key descending, equal keys in pool order
PlanOrdered(a, b, req, pool) ==
    /\ RLe(SortKey(req, b), SortKey(req, a))
    /\ SortKey(req, a) = SortKey(req, b) =>
          IndexOf(pool, a.creator_id) < IndexOf(pool, b.creator_id)

\* the matched creators a and b, a before b in the list, are in the order of
\* find_smart_creators' two sorts: tier ascending, then combined_score
\* descending, then sort_key ascending, then pool order
MatchOrdered(a, b, pool) ==
    /\ a.tier <= b.tier
    /\ a.tier = b.tier => RLe(b.combined_score, a.combined_score)
    /\ (a.tier = b.tier /\ a.combined_score = b.combined_score) =>
          XLe(a.sort_key, b.sort_key)
    /\ (a.tier = b.tier /\ a.combined_score = b.combined_score
            /\ a.sort_key = b.sort_key) =>
          IndexOf(pool, a.creator_id) < IndexOf(pool, b.creator_id)

C13_PlanningIsReadOnly ==
    [][call'.op \in {"create_plan", "create_smart_plan"} =>
          /\ click_uniques' = click_uniques
          /\ conversions' = conversions
          /\ declined_creators' = declined_creators]_vars

\* C13 witness: a planning call failed on a store that holds clicks,
\* conversions and a declined record
C13_Witness ==
    /\ Planned
    /\ call.status = 500
    /\ click_uniques # {}
    /\ conversions # {}
    /\ declined_creators # {}

\* ------------------------------------------------------------------------
\* POST /uploads/conversions (routers/uploads.py)
\* ------------------------------------------------------------------------
\* datetime.strptime(s, '%Y-%m-%d').date() as the day of September 2025;
\* None stands for the ValueError of any other text
ParseDate(s) ==
    IF s = "2025-09-01" THEN Some(1)
    ELSE IF s = "2025-09-03" THEN Some(3)
    ELSE IF s = "2025-09-05" THEN Some(5)
    ELSE IF s = "2025-09-10" THEN Some(10)
    ELSE IF s = "2025-09-11" THEN Some(11)
    ELSE IF s = "2025-09-15" THEN Some(15)
    ELSE None

\* int(conversions_str); None stands for its ValueError
ParseInt(s) ==
    IF s = "10" THEN Some(10)
    ELSE IF s = "25" THEN Some(25)
    ELSE IF s = "0" THEN Some(0)
    ELSE None

\* db.query(Creator).filter(Creator.acct_id == acct_id).first()
CreatorByAcctId(acct_id) ==
    IF \E c \in CreatorIds : CreatorAcctId(c) = acct_id
    THEN Some(CHOOSE c \in CreatorIds : CreatorAcctId(c) = acct_id)
    ELSE None

\* the && of two closed date ranges, as the exclusion constraint of
\* Conversion applies it
PeriodsOverlap(p, q) == p[1] <= q[2] /\ q[1] <= p[2]

\* the deletion query of ANY creator on the insertion
InsertionConversions(store, creator_id, insertion_id) ==
    {r \in store : r.insertion_id = insertion_id}

\* a deletion query that finds no row
KeptConversions(store, creator_id, insertion_id) == {}

\* existing_conversions: the rows of the creator on the insertion
ExistingConversions(store, creator_id, insertion_id) ==
    {r \in store : r.creator_id = creator_id /\ r.insertion_id = insertion_id}

\* a count that ignores the deleted rows
ReplacedUncounted(replaced_rows, existing) == replaced_rows

\* replaced_rows += len(existing_conversions)
ReplacedRows(replaced_rows, existing) == replaced_rows + Cardinality(existing)

\* Conversion(conv_upload_id, insertion_id, creator_id, period, conversions),
\* joined to the advertiser of its ConvUpload
UploadedConversion(req, creator_id, n) ==
    [creator_id |-> creator_id, insertion_id |-> req.insertion_id,
     upload_advertiser_id |-> req.advertiser_id,
     period |-> <<Val(ParseDate(req.range_start)), Val(ParseDate(req.range_end))>>,
     conversions |-> n]

\* the state of the row loop before the first row
UploadStart(store) ==
    [store |-> store, replaced_rows |-> 0, inserted_rows |-> 0, deleted |-> {}]

\* delete the existing rows, commit, insert the new row, commit
ReplaceConversions(st, existing, row) ==
    [store |-> (st.store \ existing) \cup {row},
     replaced_rows |-> ReplacedRows(st.replaced_rows, existing),
     inserted_rows |-> st.inserted_rows + 1,
     deleted |-> st.deleted \cup existing]

\* one pass of the loop over csv_rows; a row is skipped when a field is
\* missing, it repeats the header, no creator has its acct_id or its count
\* is not an integer
UploadRow(st, acct_id, conversions_str, req) ==
    IF acct_id = "" \/ conversions_str = "" THEN st
    ELSE IF acct_id \in {"Acct ID", "Acct Id", "acct_id"}
            \/ conversions_str \in {"Conversions", "conversions"} THEN st
    ELSE IF IsNone(CreatorByAcctId(acct_id)) THEN st
    ELSE IF IsNone(ParseInt(conversions_str)) THEN st
    ELSE ReplaceConversions(
            st,
            ExistingConversions(st.store, Val(CreatorByAcctId(acct_id)), req.insertion_id),
            UploadedConversion(req, Val(CreatorByAcctId(acct_id)), Val(ParseInt(conversions_str))))

RECURSIVE UploadRows(_, _, _)
\* for row_index, row in enumerate(csv_rows)
UploadRows(st, csv_rows, req) ==
    IF csv_rows = <<>> THEN st
    ELSE UploadRows(UploadRow(st, Strip(Head(csv_rows)[1]), Strip(Head(csv_rows)[2]), req),
                    Tail(csv_rows), req)

\* the HTTPException raised before the file is read, "" when there is none
UploadRejection(req) ==
    IF ~req.filename_is_csv THEN "File must be a CSV"
    ELSE IF IsNone(ParseDate(req.range_start)) \/ IsNone(ParseDate(req.range_end))
    THEN "Invalid date format. Use YYYY-MM-DD"
    ELSE IF req.advertiser_id \notin AdvertiserIds THEN "Advertiser not found"
    ELSE IF req.campaign_id \notin DOMAIN CampaignAdvertiser THEN "Campaign not found"
    ELSE IF req.insertion_id \notin InsertionIds THEN "Insertion not found"
    ELSE ""

\* the status code of a rejection
UploadRejectionStatus(detail) ==
    IF detail \in {"File must be a CSV", "Invalid date format. Use YYYY-MM-DD"}
    THEN 400 ELSE 404

\* the answer of upload_conversions_data and the store it leaves
UploadAnswer(req, status, detail, st) ==
    [op |-> "upload_conversions", req |-> req, status |-> status, detail |-> detail,
     replaced_rows |-> st.replaced_rows, inserted_rows |-> st.inserted_rows,
     deleted |-> st.deleted, store |-> st.store]

\* upload_conversions_data
UploadConversionsData(store, req) ==
    IF UploadRejection(req) # ""
    THEN UploadAnswer(req, UploadRejectionStatus(UploadRejection(req)),
                      UploadRejection(req), UploadStart(store))
    ELSE UploadAnswer(req, 200, "", UploadRows(UploadStart(store), req.csv_rows, req))

\* the rows DictReader yields, as the cells found under the accepted headers
CsvFiles ==
    { <<>>,
      << <<"A", "10">> >>,
      << <<" A", "25">> >>,
      << <<"B", "10">> >>,
      << <<"A", "10">>, <<"B", "25">> >>,
      << <<"A", "10">>, <<"A", "25">> >>,
      << <<"Acct Id", "Conversions">>, <<"B", "25">> >>,
      << <<"Z", "10">>, <<"A", "abc">>, <<"B", " ">>, <<"B", "0">> >> }

\* range_start and range_end of the uploads, start <= end
UploadRanges ==
    { <<"2025-09-01", "2025-09-05">>, <<"2025-09-03", "2025-09-10">>,
      <<"2025-09-11", "2025-09-15">> }

UploadRequest(advertiser_id, campaign_id, insertion_id, range, is_csv, csv_rows) ==
    [advertiser_id |-> advertiser_id, campaign_id |-> campaign_id,
     insertion_id |-> insertion_id, range_start |-> range[1], range_end |-> range[2],
     filename_is_csv |-> is_csv, csv_rows |-> csv_rows]

BaseUpload == UploadRequest(1, 1, 1, <<"2025-09-01", "2025-09-05">>, TRUE, << <<"A", "10">> >>)

UploadRequests ==
    {UploadRequest(1, 1, i, range, TRUE, csv_rows) :
        i \in InsertionIds, range \in UploadRanges, csv_rows \in CsvFiles}
    \cup {[BaseUpload EXCEPT !.filename_is_csv = FALSE],
          [BaseUpload EXCEPT !.range_start = "09/01/2025"],
          [BaseUpload EXCEPT !.range_end = ""],
          [BaseUpload EXCEPT !.advertiser_id = 3],
          [BaseUpload EXCEPT !.advertiser_id = 2],
          [BaseUpload EXCEPT !.campaign_id = 3],
          [BaseUpload EXCEPT !.insertion_id = 3]}

\* the answer without the handler's view of the store
UploadCall(answer) ==
    [op |-> answer.op, req |-> answer.req, status |-> answer.status,
     detail |-> answer.detail, replaced_rows |-> answer.replaced_rows,
     inserted_rows |-> answer.inserted_rows, deleted |-> answer.deleted]

\* an empty database, no call in progress
UploadInit ==
    /\ click_uniques = {}
    /\ conversions = {}
    /\ declined_creators = {}
    /\ plans = {}
    /\ call = Idle

UploadConversions ==
    /\ call.op = "idle"
    /\ \E req \in UploadRequests :
          /\ call' = UploadCall(UploadConversionsData(conversions, req))
          /\ conversions' = UploadConversionsData(conversions, req).store
    /\ UNCHANGED <<click_uniques, declined_creators, plans>>

UploadNext == UploadConversions \/ Respond

UploadSpec == UploadInit /\ [][UploadNext]_vars

\* ------------------------------------------------------------------------
\* Properties of the conversions upload
\* ------------------------------------------------------------------------
\* the step is an accepted conversions upload
Uploaded == call'.op = "upload_conversions" /\ call'.status = 200

\* the closed date range of an accepted upload
UploadPeriod(req) == <<Val(ParseDate(req.range_start)), Val(ParseDate(req.range_end))>>

\* the file names creator c in row i
NamesCreator(req, i, c) == Strip(req.csv_rows[i][1]) = CreatorAcctId(c)

\* row i of the file names creator c with a count that can be stored
StoresCreator(req, i, c) ==
    NamesCreator(req, i, c) /\ ~IsNone(ParseInt(Strip(req.csv_rows[i][2])))

\* the creators the file names
NamedCreators(req) ==
    {c \in CreatorIds : \E i \in DOMAIN req.csv_rows : NamesCreator(req, i, c)}

\* the creators for whom the file holds a row that is stored
StoredCreators(req) ==
    {c \in CreatorIds : \E i \in DOMAIN req.csv_rows : StoresCreator(req, i, c)}

\* no creator is stored from two rows of the file
StoredOnce(req) ==
    \A c \in CreatorIds : \A i, j \in DOMAIN req.csv_rows :
        (StoresCreator(req, i, c) /\ StoresCreator(req, j, c)) => i = j

\* the rows the store holds for the uploaded creators on the insertion
RowsOfUpload(store, req) ==
    {r \in store : r.creator_id \in StoredCreators(req) /\ r.insertion_id = req.insertion_id}

\* C14: an accepted upload leaves every existing row of the uploaded
\* creators and insertion whose date range does not overlap the uploaded
\* range in the store, next to the new row, and reports replaced_rows = 0
\* when no existing row overlaps.
C14_NonOverlappingRowsKept ==
    [][Uploaded =>
          /\ \A r \in RowsOfUpload(conversions, call'.req) :
                ~PeriodsOverlap(r.period, UploadPeriod(call'.req)) => r \in conversions'
          /\ (/\ StoredOnce(call'.req)
              /\ \A r \in RowsOfUpload(conversions, call'.req) :
                    ~PeriodsOverlap(r.period, UploadPeriod(call'.req)))
                => call'.replaced_rows = 0]_vars

\* C15: an accepted upload removes every existing row of an uploaded creator
\* on the insertion whose range equals or overlaps the uploaded range; the
\* creator then has one row on the insertion, with the uploaded range and the
\* count of its last row in the file, and replaced_rows is the number of
\* rows removed.
C15_OverlappingRowsReplaced ==
    [][Uploaded =>
          /\ \A r \in RowsOfUpload(conversions, call'.req) :
                PeriodsOverlap(r.period, UploadPeriod(call'.req)) =>
                    \/ r \notin conversions'
                    \/ r.period = UploadPeriod(call'.req)
          /\ \A c \in StoredCreators(call'.req) :
                \E i \in DOMAIN call'.req.csv_rows :
                    /\ StoresCreator(call'.req, i, c)
                    /\ \A j \in DOMAIN call'.req.csv_rows :
                          StoresCreator(call'.req, j, c) => j <= i
                    /\ ExistingConversions(conversions', c, call'.req.insertion_id) =
                          {UploadedConversion(call'.req, c,
                                              Val(ParseInt(Strip(call'.req.csv_rows[i][2]))))}
          /\ StoredOnce(call'.req) =>
                call'.replaced_rows = Cardinality(RowsOfUpload(conversions, call'.req))]_vars

\* C15 witness: an upload replaced a row whose range overlaps the uploaded
\* range without being equal to it
C15_Witness ==
    /\ call.op = "upload_conversions"
    /\ call.status = 200
    /\ call.replaced_rows = 1
    /\ \E r \in call.deleted :
          /\ PeriodsOverlap(r.period, UploadPeriod(call.req))
          /\ r.period # UploadPeriod(call.req)

\* C16: an accepted upload leaves the rows of every creator its file does
\* not name as they were, on every insertion and for every date range.
C16_OtherCreatorsUntouched ==
    [][Uploaded =>
          {r \in conversions : r.creator_id \notin NamedCreators(call'.req)} =
          {r \in conversions' : r.creator_id \notin NamedCreators(call'.req)}]_vars

\* C16 witness: an upload stored a row for one creator while another creator
\* holds a row on the same insertion whose range overlaps the uploaded range
C16_Witness ==
    /\ call.op = "upload_conversions"
    /\ call.status = 200
    /\ call.inserted_rows = 1
    /\ call.replaced_rows = 1
    /\ \E r \in conversions :
          /\ r.creator_id \notin NamedCreators(call.req)
          /\ r.insertion_id = call.req.insertion_id
          /\ PeriodsOverlap(r.period, UploadPeriod(call.req))

\* ------------------------------------------------------------------------
\* Demographic similarity (demographic_matching.py)
\* ------------------------------------------------------------------------
\* _parse_age_range on the age texts of the model: <<min, max>>, None for
\* the (None, None) of a text without '-' or with a part that is no integer
ParseAgeRange(age_range) ==
    IF age_range = "25-34" THEN Some(<<25, 34>>)
    ELSE IF age_range = "18-34" THEN Some(<<18, 34>>)
    ELSE IF age_range = "18-24" THEN Some(<<18, 24>>)
    ELSE IF age_range = "34-25" THEN Some(<<34, 25>>)
    ELSE None

\* overlap_size / min(creator_size, target_size), 0.0 without overlap
AgeOverlap(overlap_start, overlap_end, creator_size, target_size) ==
    IF overlap_start > overlap_end THEN RZero
    ELSE Rat(overlap_end - overlap_start + 1,
             IF creator_size < target_size THEN creator_size ELSE target_size)

\* the overlap of two parsed ranges
AgeRangeScore(c, t) ==
    AgeOverlap(IF c[1] > t[1] THEN c[1] ELSE t[1],
               IF c[2] < t[2] THEN c[2] ELSE t[2],
               c[2] - c[1] + 1, t[2] - t[1] + 1)

\* match_age_ranges
MatchAgeRanges(creator_age, target_age) ==
    IF creator_age = "" \/ target_age = "" THEN RZero
    ELSE IF IsNone(ParseAgeRange(creator_age)) \/ IsNone(ParseAgeRange(target_age))
    THEN RZero
    ELSE AgeRangeScore(Val(ParseAgeRange(creator_age)), Val(ParseAgeRange(target_age)))

\* gender.lower().strip() on the gender texts of the model
LowerStrip(gender) ==
    IF gender = "Men" THEN "men"
    ELSE IF gender = " mostly women" THEN "mostly women"
    ELSE gender

\* "even" in gender, "men" in gender and "women" in gender
HasEven(gender) == gender \in {"even", "even split"}
HasMen(gender) == gender \in {"men", "mostly men", "women", "mostly women"}
HasWomen(gender) == gender \in {"women", "mostly women"}

\* the comparison of the lowered and stripped texts
GenderScore(creator_gender, target_gender) ==
    IF creator_gender = target_gender THEN RInt(1)
    ELSE IF HasEven(creator_gender) /\ HasEven(target_gender) THEN Rat(8, 10)
    ELSE IF (HasMen(creator_gender) /\ HasMen(target_gender))
            \/ (HasWomen(creator_gender) /\ HasWomen(target_gender)) THEN Rat(6, 10)
    ELSE RZero

\* match_gender_skew
MatchGenderSkew(creator_gender, target_gender) ==
    IF creator_gender = "" \/ target_gender = "" THEN RZero
    ELSE GenderScore(LowerStrip(creator_gender), LowerStrip(target_gender))

\* location.upper().strip() on the location texts of the model
UpperStrip(location) == IF location \in {"us", " US"} THEN "US" ELSE location

\* match_location
MatchLocation(creator_location, target_location) ==
    IF creator_location = "" \/ target_location = "" THEN RZero
    ELSE IF UpperStrip(creator_location) = UpperStrip(target_location) THEN RInt(1)
    ELSE RZero

\* set(_parse_interests(interests)) on the interest texts of the model
ParseInterests(interests) ==
    IF interests = "tech,gaming" THEN {"tech", "gaming"}
    ELSE IF interests = "Gaming, Tech" THEN {"tech", "gaming"}
    ELSE IF interests = "gaming,gaming" THEN {"gaming"}
    ELSE IF interests = "tech,food,travel" THEN {"tech", "food", "travel"}
    ELSE {}

\* len(intersection) / len(union)
Jaccard(creator_set, target_set) ==
    IF creator_set = {} \/ target_set = {} THEN RZero
    ELSE Rat(Cardinality(creator_set \cap target_set), Cardinality(creator_set \cup target_set))

\* match_interests
MatchInterests(creator_interests, target_interests) ==
    IF creator_interests = "" \/ target_interests = "" THEN RZero
    ELSE Jaccard(ParseInterests(creator_interests), ParseInterests(target_interests))

\* the score and the weight a dimension appends when both sides supply it
Dimension(creator_value, target_value, name, score, weight) ==
    IF creator_value # "" /\ target_value # ""
    THEN << [dimension |-> name, score |-> score, weight |-> weight] >>
    ELSE <<>>

\* scores and weights, in the order the function appends them
DimensionScores(creator, target) ==
    Dimension(creator.age_range, target.age_range, "age_range",
              MatchAgeRanges(creator.age_range, target.age_range), Rat(3, 10))
    \o Dimension(creator.gender_skew, target.gender_skew, "gender_skew",
                 MatchGenderSkew(creator.gender_skew, target.gender_skew), Rat(2, 10))
    \o Dimension(creator.location, target.location, "location",
                 MatchLocation(creator.location, target.location), Rat(2, 10))
    \o Dimension(creator.interests, target.interests, "interests",
                 MatchInterests(creator.interests, target.interests), Rat(3, 10))

\* sum(weights)
TotalWeight(dimensions) == SeqSum([i \in DOMAIN dimensions |-> dimensions[i].weight])

\* sum(score * weight for score, weight in zip(scores, weights))
WeightedSum(dimensions) ==
    SeqSum([i \in DOMAIN dimensions |-> RMul(dimensions[i].score, dimensions[i].weight)])

\* a weighted sum that is not divided by the weight of the present dimensions
Unnormalised(weighted_sum, total_weight) == weighted_sum

\* weighted_sum / total_weight
WeightedAverage(weighted_sum, total_weight) == RDiv(weighted_sum, total_weight)

\* the value calculate_demographic_similarity returns for its scores
SimilarityOf(dimensions) ==
    IF dimensions = <<>> THEN RZero
    ELSE IF TotalWeight(dimensions) = RZero THEN RZero
    ELSE WeightedAverage(WeightedSum(dimensions), TotalWeight(dimensions))

\* calculate_demographic_similarity, with the scores it collected
CalculateDemographicSimilarity(creator, target, dimensions) ==
    [op |-> "calculate_demographic_similarity", creator |-> creator, target |-> target,
     dimensions |-> dimensions, similarity |-> SimilarityOf(dimensions)]

\* the demographics of a creator or of a target; "" stands for a value that
\* is not supplied (None or the empty text)
Demographics ==
    [age_range : {"", "25-34", "18-34", "65+", "34-25"},
     gender_skew : {"", "Men", "mostly women", "even split"},
     location : {"", "US", "us"},
     interests : {"", "tech,gaming", "Gaming, Tech", ","}]

\* a pair of demographics to compare
DemographicInit ==
    /\ click_uniques = {}
    /\ conversions = {}
    /\ declined_creators = {}
    /\ plans = {}
    /\ \E creator \in Demographics, target \in Demographics :
          call = [op |-> "demographics", creator |-> creator, target |-> target]

CompareDemographics ==
    /\ call.op = "demographics"
    /\ call' = CalculateDemographicSimilarity(call.creator, call.target,
                                              DimensionScores(call.creator, call.target))
    /\ UNCHANGED <<click_uniques, conversions, declined_creators, plans>>

DemographicNext == CompareDemographics

DemographicSpec == DemographicInit /\ [][DemographicNext]_vars

\* ------------------------------------------------------------------------
\* Properties of the demographic similarity
\* ------------------------------------------------------------------------
\* the state holds the comparison of a profile with a target of the same
\* values, at least one of them supplied
IdenticalCompared ==
    /\ call.op = "calculate_demographic_similarity"
    /\ call.creator = call.target
    /\ call.dimensions # <<>>

\* a supplied age range reads min-max with min <= max, and supplied
\* interests hold at least one item
WellFormed(d) ==
    /\ d.age_range # "" =>
          /\ ~IsNone(ParseAgeRange(d.age_range))
          /\ Val(ParseAgeRange(d.age_range))[1] <= Val(ParseAgeRange(d.age_range))[2]
    /\ d.interests # "" => ParseInterests(d.interests) # {}

\* every compared dimension scores 1.0 and so does the whole
AllOnes ==
    /\ \A i \in DOMAIN call.dimensions : call.dimensions[i].score = RInt(1)
    /\ call.similarity = RInt(1)

\* C17 as stated: a profile compared with a target of identical values
\* scores 1.0 on every dimension both supply and 1.0 overall.
C17_IdenticalScoresOne == IdenticalCompared => AllOnes

\* C17: a profile compared with a target of identical values scores 1.0 on
\* every dimension both supply and 1.0 overall, when its age range is a
\* parsable min-max with min <= max and its interests hold an item.
C17_IdenticalWellFormedScoresOne ==
    (IdenticalCompared /\ WellFormed(call.creator)) => AllOnes

\* C17 witness: a well-formed profile that supplies all four dimensions was
\* compared with itself
C17_Witness ==
    /\ IdenticalCompared
    /\ WellFormed(call.creator)
    /\ Len(call.dimensions) = 4

\* ------------------------------------------------------------------------
\* Vector similarity (routers/analytics.py)
\* ------------------------------------------------------------------------
\* the largest norm of a vector of the model
MaxNorm == 5

\* np.dot of two vectors of the same length
Dot(u, v) == SeqSum([i \in DOMAIN u |-> RInt(u[i] * v[i])])[1]

\* np.linalg.norm, exact on the vectors of the model, whose norms are integers
Norm(v) == CHOOSE n \in 0 .. MaxNorm : n * n = Dot(v, v)

\* similarities = dot_products / (creator_norm * anchor_norms)
Similarities(creator_vec, anchor_matrix) ==
    [i \in DOMAIN anchor_matrix |->
        Rat(Dot(anchor_matrix[i], creator_vec), Norm(creator_vec) * Norm(anchor_matrix[i]))]

RECURSIVE MaxOf(_)
\* np.max of a non-empty array
MaxOf(values) ==
    IF Len(values) = 1 THEN values[1] ELSE RMax(values[1], MaxOf(Tail(values)))

\* calculate_vector_similarity
CalculateVectorSimilarity(creator_vector, anchor_vectors) ==
    IF creator_vector = <<>> \/ anchor_vectors = <<>> THEN RZero
    ELSE IF Norm(creator_vector) = 0
            \/ \E i \in DOMAIN anchor_vectors : Norm(anchor_vectors[i]) = 0 THEN RZero
    ELSE MaxOf(Similarities(creator_vector, anchor_vectors))

\* embeddings of two components with integer norms: the zero vector, unit
\* vectors and vectors of norm MaxNorm
Vectors ==
    {v \in {<<0, 0>>, <<1, 0>>, <<0, 1>>, <<0, -1>>, <<3, 4>>, <<4, 3>>, <<-3, -4>>, <<0, 6>>} :
        Dot(v, v) <= MaxNorm * MaxNorm}

\* the anchor lists of the model: up to two anchors
AnchorLists == {<<>>} \cup {<<a>> : a \in Vectors} \cup (Vectors \X Vectors)

\* a creator vector (<<>> when the creator has none) and the anchors
VectorInit ==
    /\ click_uniques = {}
    /\ conversions = {}
    /\ declined_creators = {}
    /\ plans = {}
    /\ \E creator_vector \in Vectors \cup {<<>>}, anchor_vectors \in AnchorLists :
          call = [op |-> "vectors", creator_vector |-> creator_vector,
                  anchor_vectors |-> anchor_vectors]

CompareVectors ==
    /\ call.op = "vectors"
    /\ call' = [op |-> "calculate_vector_similarity",
                creator_vector |-> call.creator_vector,
                anchor_vectors |-> call.anchor_vectors,
                similarity |-> CalculateVectorSimilarity(call.creator_vector,
                                                         call.anchor_vectors)]
    /\ UNCHANGED <<click_uniques, conversions, declined_creators, plans>>

VectorNext == CompareVectors

VectorSpec == VectorInit /\ [][VectorNext]_vars

\* ------------------------------------------------------------------------
\* Properties of the vector similarity
\* ------------------------------------------------------------------------
\* the cosine similarity of a pair, 0 when either vector has norm zero
PairCosine(u, v) ==
    IF Norm(u) = 0 \/ Norm(v) = 0 THEN RZero ELSE Rat(Dot(u, v), Norm(u) * Norm(v))

\* the similarity is the cosine of the pair made with some anchor, and no
\* anchor makes a pair of greater cosine
IsMaxCosine(similarity, creator_vector, anchor_vectors) ==
    /\ \E i \in DOMAIN anchor_vectors :
          similarity = PairCosine(creator_vector, anchor_vectors[i])
    /\ \A i \in DOMAIN anchor_vectors :
          RLe(PairCosine(creator_vector, anchor_vectors[i]), similarity)

\* C18: the vector similarity of a creator vector and a list of anchors is
\* the maximum over the anchors of the cosine similarity of the pair, a pair
\* with a zero-norm vector counting as 0; so a unit vector against itself
\* gives 1.0 and against the zero vector 0.0.
C18_MaxCosineOverAnchors ==
    (/\ call.op = "calculate_vector_similarity"
     /\ call.creator_vector # <<>>
     /\ call.anchor_vectors # <<>>) =>
        /\ IsMaxCosine(call.similarity, call.creator_vector, call.anchor_vectors)
        /\ (Norm(call.creator_vector) = 1 /\ call.anchor_vectors = <<call.creator_vector>>)
              => call.similarity = RInt(1)
        /\ call.anchor_vectors = << <<0, 0>> >> => call.similarity = RZero

\* ------------------------------------------------------------------------
\* Further properties of the planning endpoints
\* ------------------------------------------------------------------------
\* the request names a category or an advertiser, but not both
OneContext(req) == (req.category # "") # (req.advertiser_id # 0)

\* the request gives a CPC or an insertion, but not both
OnePrice(req) == (req.cpc # RZero) # (req.insertion_id # 0)

\* C19: a plan request gets past validation, to the fetch of its candidates
\* and their allocation, only if it supplies exactly one of category and
\* advertiser_id and exactly one of cpc and insertion_id.
C19_ExactlyOneContextAndPrice ==
    (Planned /\ call.fetched) => (OneContext(call.req) /\ OnePrice(call.req))

\* the phase that the history of a creator calls for
PhaseOfHistory(same_data, cross_data) ==
    IF same_data.total_clicks > 0 \/ same_data.total_conversions > 0 THEN 1
    ELSE IF cross_data.total_clicks > 0 \/ cross_data.total_conversions > 0 THEN 2
    ELSE 3

\* the matcher gave every creator it returned the phase of its history
MatcherPhases ==
    \A i \in DOMAIN call.matched :
        call.matched[i].performance_data.phase =
            PhaseOfHistory(SamePerformance(call.matched[i].creator_id, call.req),
                           CrossPerformance(call.matched[i].creator_id, call.req))

\* the batch computation gave every candidate one entry, with the phase of
\* its history
BatchPhases ==
    \A c \in CreatorIds :
        /\ Cardinality({e \in call.batch_performance_data : e.creator_id = c}) = 1
        /\ \A e \in call.batch_performance_data :
              e.creator_id = c =>
                  e.phase = PhaseOfHistory(SamePerformance(c, call.req),
                                           CrossPerformance(c, call.req))

\* C20: every candidate is assigned exactly one phase: 1 iff it has clicks
\* or conversions in the requested context, 2 iff it has none there but has
\* clicks or conversions in another context, 3 otherwise.
C20_PhaseFollowsHistory ==
    /\ call.op = "find_smart_creators" => MatcherPhases
    /\ (call.op = "create_smart_plan" /\ call.fetched) => BatchPhases

\* ------------------------------------------------------------------------
\* Properties of the passes of create_smart_plan
\* ------------------------------------------------------------------------
\* the performance data the matcher holds for creator c of the request
MatcherData(c, req) ==
    CreatorData(c, req, Val(ResolveCpc(req)), AvgCvrOrDefault(req)).performance_data

\* creator c is a candidate of the request with the given phase
CandidateOfPhase(c, req, phase) ==
    /\ c \in SeqRange(ApplyAcctIdFilter(BaseCreators, req))
    /\ MatcherData(c, req).phase = phase

\* the candidate passes the CPA filter and one placement fits the budget
Allocatable(c, req) ==
    /\ ~IsNone(MatcherData(c, req).expected_cpa)
    /\ IsNone(req.target_cpa)
          \/ RLe(Val(MatcherData(c, req).expected_cpa), Val(req.target_cpa))
    /\ RLe(MatcherData(c, req).expected_spend, req.budget)

\* C21: a Phase-2 candidate (history in other contexts only) that passes the
\* CPA filter and whose placement fits the budget left by the primary pass
\* receives one placement in the secondary pass; stated for a request whose
\* only candidate with history is that creator, so that the primary pass
\* leaves the whole budget.
C21_SecondaryPassAllocates ==
    (call.op = "create_smart_plan" /\ ValidRequest(call.req)) =>
        \A c \in CreatorIds :
            (/\ CandidateOfPhase(c, call.req, 2)
             /\ Allocatable(c, call.req)
             /\ \A d \in CreatorIds \ {c} : ~CandidateOfPhase(d, call.req, 1)
                                            /\ ~CandidateOfPhase(d, call.req, 2)) =>
                /\ call.status = 200
                /\ c \in IdsOf(call.plan.picked_creators)

\* C22: every creator allocated by the passes of create_smart_plan that
\* precede the secondary pass is a candidate of Phase 1; candidates of
\* Phase 2 or 3 receive nothing from the primary pass.
C22_PrimaryPassAllocatesPhase1 ==
    (call.op = "create_smart_plan" /\ call.status = 200) =>
        \A i \in DOMAIN call.plan.picked_creators :
            MatcherData(call.plan.picked_creators[i].creator_id, call.req).phase = 1

\* the expected CVR that the phase of a candidate calls for: conversions by
\* clicks of the history of that phase, the baseline without history
CvrOfPhase(phase, same_data, cross_data, baseline) ==
    IF phase = 1 THEN CvrOf(same_data.total_conversions, same_data.total_clicks)
    ELSE IF phase = 2 THEN CvrOf(cross_data.total_conversions, cross_data.total_clicks)
    ELSE baseline

\* the history of creator c that the phase is about holds a click
ClickedInPhase(phase, same_data, cross_data) ==
    /\ phase = 1 => same_data.total_clicks > 0
    /\ phase = 2 => cross_data.total_clicks > 0

\* the matcher gave the creator at position i the expected CVR of its phase
MatcherCvr(i) ==
    ClickedInPhase(call.matched[i].performance_data.phase,
                   SamePerformance(call.matched[i].creator_id, call.req),
                   CrossPerformance(call.matched[i].creator_id, call.req)) =>
        call.matched[i].performance_data.expected_cvr =
            CvrOfPhase(call.matched[i].performance_data.phase,
                       SamePerformance(call.matched[i].creator_id, call.req),
                       CrossPerformance(call.matched[i].creator_id, call.req),
                       AvgCvrOrDefault(call.req))

\* create_plan gave the creator at position i of its statistics the expected
\* CVR of the phase of its history
PlanCvr(i) ==
    ClickedInPhase(PhaseOfHistory(SamePerformance(call.creator_stats[i].creator_id, call.req),
                                  CrossPerformance(call.creator_stats[i].creator_id, call.req)),
                   SamePerformance(call.creator_stats[i].creator_id, call.req),
                   CrossPerformance(call.creator_stats[i].creator_id, call.req)) =>
        call.creator_stats[i].expected_cvr =
            CvrOfPhase(PhaseOfHistory(SamePerformance(call.creator_stats[i].creator_id, call.req),
                                      CrossPerformance(call.creator_stats[i].creator_id, call.req)),
                       SamePerformance(call.creator_stats[i].creator_id, call.req),
                       CrossPerformance(call.creator_stats[i].creator_id, call.req),
                       AdvertiserCvr(call.req))

\* C23: the expected_cvr of a phase-1 candidate is its same-context
\* conversions divided by its clicks, that of a phase-2 candidate its
\* cross-context conversions divided by its clicks, that of a phase-3
\* candidate the advertiser-supplied or global baseline CVR.
C23_ExpectedCvrByPhase ==
    /\ call.op = "find_smart_creators" => \A i \in DOMAIN call.matched : MatcherCvr(i)
    /\ call.op = "create_plan" => \A i \in DOMAIN call.creator_stats : PlanCvr(i)

\* the placements the budget filling loop of create_plan appended after the
\* first pass
LoopAdded ==
    Len(call.alloc.picked_creators)
        - Len(FirstPass(call.creator_stats, AllocationStart(call.req)).picked_creators)

\* C24: the budget-maximization loop terminates: it makes at most
\* pool_size x 3 iterations, makes no iteration once the remaining budget is
\* exhausted, and makes at most one iteration that adds no placement, the
\* one it stops at.
C24_LoopTerminates ==
    call.op = "create_plan" =>
        /\ call.alloc.iteration <= Len(call.creator_stats) * 3
        /\ call.alloc.iteration <= LoopAdded + 1
        /\ (~call.alloc.raised /\ ~RLt(RZero, call.alloc.remaining_budget)) =>
                call.alloc.iteration = LoopAdded

\* a pass over a non-empty candidate list added no placement, budget remains
\* and the loop stopped after this one iteration
C24_Witness ==
    /\ call.op = "create_plan"
    /\ call.status = 200
    /\ call.creator_stats # <<>>
    /\ RLt(RZero, call.alloc.remaining_budget)
    /\ call.alloc.iteration = 1
    /\ LoopAdded = 0

\* ------------------------------------------------------------------------
\* Properties of the gender-skew matching
\* ------------------------------------------------------------------------
\* which of men and women a lowered and stripped gender text mentions
Mentions(gender) ==
    IF gender \in {"men", "mostly men"} THEN "men"
    ELSE IF gender \in {"women", "mostly women"} THEN "women"
    ELSE ""

\* the score the two lowered and stripped texts call for
GenderSkewExpected(creator_gender, target_gender) ==
    IF creator_gender = target_gender THEN RInt(1)
    ELSE IF HasEven(creator_gender) /\ HasEven(target_gender) THEN Rat(8, 10)
    ELSE IF Mentions(creator_gender) # "" /\ Mentions(creator_gender) = Mentions(target_gender)
    THEN Rat(6, 10)
    ELSE RZero

\* C25: gender-skew matching scores 1.0 for texts equal after trimming and
\* lower-casing, 0.8 if both contain "even", 0.6 if both mention the same
\* one of men and women, and 0 otherwise: a text mentioning only men against
\* a text mentioning only women scores 0.
C25_GenderSkewScores ==
    call.op = "calculate_demographic_similarity" =>
        \A i \in DOMAIN call.dimensions :
            call.dimensions[i].dimension = "gender_skew" =>
                call.dimensions[i].score =
                    GenderSkewExpected(LowerStrip(call.creator.gender_skew),
                                       LowerStrip(call.target.gender_skew))

\* ------------------------------------------------------------------------
\* The range of the two similarities
\* ------------------------------------------------------------------------
\* 0 <= x <= 1
InUnitInterval(x) == RLe(RZero, x) /\ RLe(x, RInt(1))

\* C26: the demographic similarity and the vector similarity are each
\* between 0 and 1 inclusive for every input, embeddings with negative
\* components and profiles with missing or unparsable fields included.
C26_SimilaritiesInUnitInterval ==
    /\ call.op = "calculate_demographic_similarity" => InUnitInterval(call.similarity)
    /\ call.op = "calculate_vector_similarity" => InUnitInterval(call.similarity)

\* ------------------------------------------------------------------------
\* The stored conversion rows
\* ------------------------------------------------------------------------
\* two different stored rows of one creator on one insertion
SamePair(r, q) ==
    r # q /\ r.creator_id = q.creator_id /\ r.insertion_id = q.insertion_id

\* C27: after any sequence of conversion uploads, no two stored conversion
\* rows of the same creator and insertion have overlapping periods.
C27_NoOverlappingPeriods ==
    \A r \in conversions : \A q \in conversions :
        SamePair(r, q) => ~PeriodsOverlap(r.period, q.period)

\* C27 witness: the store holds the row of an upload whose period overlaps
\* that of a row the same creator had on the insertion before the upload
C27_Witness ==
    /\ call.op = "upload_conversions"
    /\ call.status = 200
    /\ \E r \in call.deleted : \E q \in conversions :
          SamePair(r, q) /\ PeriodsOverlap(r.period, q.period)

\* ------------------------------------------------------------------------
\* The performance upload (routers/uploads.py, upload_performance_data)
\* ------------------------------------------------------------------------
\* Creator.owner_email, unique per creator
CreatorEmail(c) == <<"a@x.com", "b@x.com", "c@x.com", "d@x.com", "e@x.com">>[c]

\* extract_email_from_creator on the Creator cells of the model: the address
\* of a [mailto:...] link or the first address of the text, lowered
ExtractEmailFromCreator(creator_field) ==
    IF creator_field = "a@x.com" THEN Some("a@x.com")
    ELSE IF creator_field = "Bee [mailto:B@x.com]" THEN Some("b@x.com")
    ELSE IF creator_field = "b@x.com" THEN Some("b@x.com")
    ELSE IF creator_field = "z@x.com" THEN Some("z@x.com")
    ELSE None

\* db.query(Creator).filter(func.lower(Creator.owner_email) == creator_email).first()
CreatorByEmail(creator_email) ==
    IF \E c \in CreatorIds : CreatorEmail(c) = creator_email
    THEN Some(CHOOSE c \in CreatorIds : CreatorEmail(c) = creator_email)
    ELSE None

\* normalize_execution_date as the day of September 2025, None for a text no
\* format reads
NormalizeExecutionDate(date_str) ==
    IF date_str = "2025-09-01" THEN Some(1)
    ELSE IF date_str = "09/02/2025" THEN Some(2)
    ELSE None

\* status.lower() and offer_email.lower() on the texts of the model
Lower(t) ==
    IF t \in {"Declined", "DECLINED"} THEN "declined"
    ELSE IF t = "Unscheduled" THEN "unscheduled"
    ELSE t

\* is_performance_csv and is_decline_csv, from the header of the file
IsPerformanceCsv(columns) == columns \in {"performance", "both"}
IsDeclineCsv(columns) == columns \in {"decline", "both"}

\* the rows a query of the session reads: with autoflush the pending changes
\* of the session are written before the query runs, without it the query
\* reads the table as the last flush left it
Visible(pending, flushed, autoflush) == IF autoflush THEN pending ELSE flushed

\* the session of one upload: the tables as db.commit() will leave them, the
\* tables as they were at db.flush(), and the counters of the answer
PerformanceStart(clicks, declined, autoflush) ==
    [clicks |-> clicks, declined |-> declined,
     flushed_clicks |-> clicks, flushed_declined |-> declined,
     autoflush |-> autoflush,
     inserted_rows |-> 0, replaced_rows |-> 0, unmatched_count |-> 0,
     declined_count |-> 0]

\* "Delete existing performance data for this insertion" (performance CSV only)
DeleteInsertionClicks(st, req) ==
    IF IsPerformanceCsv(req.columns)
    THEN [st EXCEPT
            !.clicks = {r \in @ : r.insertion_id # req.insertion_id},
            !.replaced_rows =
                Cardinality({r \in st.clicks : r.insertion_id = req.insertion_id})]
    ELSE st

\* a decline check that finds no record
NoDecline(declined, creator_id, advertiser_id) == {}

\* existing_decline: the records of the creator-advertiser combination
ExistingDecline(declined, creator_id, advertiser_id) ==
    {d \in declined : d.creator_id = creator_id /\ d.advertiser_id = advertiser_id}

\* DeclinedCreator(creator_id, advertiser_id, reason) with its serial declined_id
NewDeclinedCreator(declined, creator_id, advertiser_id) ==
    [declined_id |-> Cardinality(declined) + 1,
     creator_id |-> creator_id, advertiser_id |-> advertiser_id]

\* "Check if this creator-advertiser combination is already declined" and
\* record it if not
RecordDecline(st, creator_id, advertiser_id) ==
    IF ExistingDecline(Visible(st.declined, st.flushed_declined, st.autoflush),
                       creator_id, advertiser_id) # {}
    THEN st
    ELSE [st EXCEPT
            !.declined = @ \cup {NewDeclinedCreator(st.declined, creator_id, advertiser_id)},
            !.declined_count = @ + 1]

\* existing_clicks: the click rows of the creator on the insertion and date
ExistingClicks(clicks, creator_id, insertion_id, execution_date) ==
    {r \in clicks : /\ r.creator_id = creator_id
                    /\ r.insertion_id = insertion_id
                    /\ r.execution_date = execution_date}

\* delete the existing click rows and add the ClickUnique of the row
StoreClick(st, existing, row) ==
    [st EXCEPT
        !.clicks = (@ \ existing) \cup {row},
        !.replaced_rows = @ + Cardinality(existing),
        !.inserted_rows = @ + 1]

\* a performance row of a matched creator
PerformanceRow(st, creator_id, clicks_str, unique_str, execution_date_str, status, req) ==
    IF Lower(status) = "unscheduled" THEN st
    ELSE IF unique_str = "" \/ execution_date_str = "" THEN st
    ELSE IF IsNone(ParseInt(unique_str)) \/ (clicks_str # "" /\ IsNone(ParseInt(clicks_str)))
    THEN st
    ELSE IF IsNone(NormalizeExecutionDate(execution_date_str)) THEN st
    ELSE IF Lower(status) = "declined"
    THEN RecordDecline(
            StoreClick(st,
                       ExistingClicks(Visible(st.clicks, st.flushed_clicks, st.autoflush),
                                      creator_id, req.insertion_id,
                                      Val(NormalizeExecutionDate(execution_date_str))),
                       ClickRow(creator_id, req.insertion_id,
                                Val(NormalizeExecutionDate(execution_date_str)),
                                Val(ParseInt(unique_str)))),
            creator_id, InsertionAdvertiser(req.insertion_id))
    ELSE StoreClick(st,
                    ExistingClicks(Visible(st.clicks, st.flushed_clicks, st.autoflush),
                                   creator_id, req.insertion_id,
                                   Val(NormalizeExecutionDate(execution_date_str))),
                    ClickRow(creator_id, req.insertion_id,
                             Val(NormalizeExecutionDate(execution_date_str)),
                             Val(ParseInt(unique_str))))

\* a decline row of a matched creator
DeclineRow(st, creator_id, offer_email, req) ==
    IF offer_email = "" THEN st
    ELSE IF Lower(offer_email) = "declined"
    THEN RecordDecline(st, creator_id, InsertionAdvertiser(req.insertion_id))
    ELSE st

\* unmatched_count += 1
Unmatched(st) == [st EXCEPT !.unmatched_count = @ + 1]

\* one row of the file; the cells are Creator, Clicks, Unique, Execution
\* Date, Status and Offer email, "" for a column the file does not have
PerformanceUploadRow(st, row, req) ==
    IF row[1] = "" THEN st
    ELSE IF IsNone(ExtractEmailFromCreator(row[1])) THEN Unmatched(st)
    ELSE IF IsNone(CreatorByEmail(Val(ExtractEmailFromCreator(row[1])))) THEN Unmatched(st)
    ELSE IF IsPerformanceCsv(req.columns)
    THEN PerformanceRow(st, Val(CreatorByEmail(Val(ExtractEmailFromCreator(row[1])))),
                        row[2], row[3], row[4], row[5], req)
    ELSE DeclineRow(st, Val(CreatorByEmail(Val(ExtractEmailFromCreator(row[1])))),
                    row[6], req)

RECURSIVE PerformanceUploadRows(_, _, _)
\* for row in csv_reader
PerformanceUploadRows(st, csv_rows, req) ==
    IF csv_rows = <<>> THEN st
    ELSE PerformanceUploadRows(PerformanceUploadRow(st, Head(csv_rows), req),
                               Tail(csv_rows), req)

\* the answer of upload_performance_data and the tables it commits
PerformanceAnswer(req, status, detail, st) ==
    [op |-> "upload_performance", req |-> req, autoflush |-> st.autoflush,
     status |-> status, detail |-> detail,
     csv_type |-> IF status # 200 THEN ""
                  ELSE IF IsPerformanceCsv(req.columns) THEN "performance" ELSE "decline",
     inserted_rows |-> st.inserted_rows, replaced_rows |-> st.replaced_rows,
     unmatched_count |-> st.unmatched_count, declined_count |-> st.declined_count,
     clicks |-> st.clicks, declined |-> st.declined]

\* upload_performance_data; the HTTPException for a file of neither kind is
\* raised inside the try block, whose handler rolls back and answers 500
UploadPerformanceData(clicks, declined, req, autoflush) ==
    IF ~req.filename_is_csv
    THEN PerformanceAnswer(req, 400, "File must be a CSV",
                           PerformanceStart(clicks, declined, autoflush))
    ELSE IF req.insertion_id \notin InsertionIds
    THEN PerformanceAnswer(req, 404, "Insertion not found",
                           PerformanceStart(clicks, declined, autoflush))
    ELSE IF ~IsPerformanceCsv(req.columns) /\ ~IsDeclineCsv(req.columns)
    THEN PerformanceAnswer(req, 500, "Error processing CSV",
                           PerformanceStart(clicks, declined, autoflush))
    ELSE PerformanceAnswer(req, 200, "",
            PerformanceUploadRows(
                DeleteInsertionClicks(PerformanceStart(clicks, declined, autoflush), req),
                req.csv_rows, req))

\* performance files: the rows under Creator, Clicks, Unique, Execution Date
\* and Status
PerformanceFiles ==
    { << <<"a@x.com", "25", "10", "2025-09-01", "", "">> >>,
      << <<"a@x.com", "", "10", "2025-09-01", "declined", "">>,
         <<"a@x.com", "", "25", "09/02/2025", "Declined", "">> >>,
      << <<"Bee [mailto:B@x.com]", "", "0", "09/02/2025", "declined", "">>,
         <<"b@x.com", "", "10", "09/02/2025", "", "">> >>,
      << <<"b@x.com", "", "10", "2025-09-01", "Unscheduled", "">>,
         <<"b@x.com", "", "", "2025-09-01", "declined", "">>,
         <<"b@x.com", "", "abc", "2025-09-01", "declined", "">>,
         <<"b@x.com", "", "10", "soon", "declined", "">>,
         <<"Bob", "", "10", "2025-09-01", "declined", "">>,
         <<"", "", "10", "2025-09-01", "declined", "">> >> }

\* decline files: the rows under Creator and Offer email
DeclineFiles ==
    { << <<"a@x.com", "", "", "", "", "declined">>,
         <<"b@x.com", "", "", "", "", "accepted">> >>,
      << <<"b@x.com", "", "", "", "", "DECLINED">>,
         <<"Bee [mailto:B@x.com]", "", "", "", "", "declined">>,
         <<"z@x.com", "", "", "", "", "declined">>,
         <<"a@x.com", "", "", "", "", "">> >> }

PerformanceRequest(insertion_id, is_csv, columns, csv_rows) ==
    [insertion_id |-> insertion_id, filename_is_csv |-> is_csv,
     columns |-> columns, csv_rows |-> csv_rows]

PerformanceRequests ==
    {PerformanceRequest(1, TRUE, "performance", csv_rows) : csv_rows \in PerformanceFiles}
    \cup {PerformanceRequest(i, TRUE, "decline", csv_rows) :
            i \in InsertionIds, csv_rows \in DeclineFiles}
    \cup {PerformanceRequest(1, TRUE, "both",
                             << <<"b@x.com", "", "10", "2025-09-01", "", "declined">> >>),
          PerformanceRequest(1, TRUE, "none", << <<"a@x.com", "", "", "", "", "">> >>),
          PerformanceRequest(1, FALSE, "performance", <<>>),
          PerformanceRequest(3, TRUE, "decline", <<>>)}

\* the settings of the session factory: sessionmaker(autoflush=False) as the
\* tests build their sessions, and the autoflush=True of a sessionmaker left
\* at its default
SessionAutoflush == {FALSE, TRUE}

\* the answer without the handler's view of the tables
PerformanceCall(answer) ==
    [op |-> answer.op, req |-> answer.req, autoflush |-> answer.autoflush,
     status |-> answer.status, detail |-> answer.detail, csv_type |-> answer.csv_type,
     inserted_rows |-> answer.inserted_rows, replaced_rows |-> answer.replaced_rows,
     unmatched_count |-> answer.unmatched_count,
     declined_count |-> answer.declined_count]

\* an empty database, no call in progress
PerformanceInit ==
    /\ click_uniques = {}
    /\ conversions = {}
    /\ declined_creators = {}
    /\ plans = {}
    /\ call = Idle

UploadPerformance ==
    /\ call.op = "idle"
    /\ \E req \in PerformanceRequests, autoflush \in SessionAutoflush :
          /\ call' = PerformanceCall(
                        UploadPerformanceData(click_uniques, declined_creators, req, autoflush))
          /\ click_uniques' =
                UploadPerformanceData(click_uniques, declined_creators, req, autoflush).clicks
          /\ declined_creators' =
                UploadPerformanceData(click_uniques, declined_creators, req, autoflush).declined
    /\ UNCHANGED <<conversions, plans>>

PerformanceNext == UploadPerformance \/ Respond

PerformanceSpec == PerformanceInit /\ [][PerformanceNext]_vars

MaxPlans == 2

\* the users get_current_user resolves the requests to
UserIds == {1, 2}

\* datetime.now(timezone.utc) as a logical clock: later than every timestamp
\* stored so far
Now(store) == SetMax({0} \cup {p.updated_at : p \in store}) + 1

\* PlanRequest(**plan.plan_request) raises a ValidationError without a budget
PlanRequestValidates(d) == "budget" \in DOMAIN d

\* the PlanCreator and PlanRequest objects confirm_plan builds for the email
\* can be built from the saved dicts
SavedPlanValidates(plan) ==
    /\ \A i \in DOMAIN plan.plan_data.picked_creators :
          PlanCreatorValidates(plan.plan_data.picked_creators[i])
    /\ PlanRequestValidates(plan.plan_request)

\* Plan(user_id, plan_request, plan_data, status='draft', created_at, updated_at)
DraftPlan(store, user_id, plan_request, plan_data) ==
    [plan_id |-> Cardinality(store) + 1, user_id |-> user_id,
     plan_request |-> plan_request, plan_data |-> plan_data,
     status |-> "draft", confirmed_at |-> None,
     created_at |-> Now(store), updated_at |-> Now(store)]

\* the answer of a handler of the plans router and the table it leaves
PlanAnswer(op, plan_id, user_id, status, success, message, store) ==
    [op |-> op, plan_id |-> plan_id, user_id |-> user_id, status |-> status,
     success |-> success, message |-> message, store |-> store]

\* create_plan of the plans router (POST /plans): "Save a plan to the database"
SavePlan(store, user_id, plan_request, plan_data) ==
    PlanAnswer("save_plan", Cardinality(store) + 1, user_id, 200, TRUE, "draft",
               store \cup {DraftPlan(store, user_id, plan_request, plan_data)})

\* db.query(Plan).filter(Plan.plan_id == plan_id, Plan.user_id == current_user.user_id)
PlansOf(store, plan_id, user_id) ==
    {p \in store : p.plan_id = plan_id /\ p.user_id = user_id}

\* a test of the status that never finds a plan confirmed
NeverConfirmed(plan) == FALSE

\* plan.status == 'confirmed'
AlreadyConfirmed(plan) == plan.status = "confirmed"

\* "Update plan status": status, confirmed_at and updated_at
ConfirmedPlan(plan, now) ==
    [plan EXCEPT !.status = "confirmed", !.confirmed_at = Some(now), !.updated_at = now]

\* confirm_plan on the plan the query found: the early return for a
\* confirmed plan; otherwise the update is committed before the objects of
\* the email are built, and an exception of that later part answers 500 with
\* a rollback that finds nothing to undo. A failure to send the email is
\* caught and does not change the answer.
ConfirmFound(store, plan, plan_id, user_id) ==
    IF AlreadyConfirmed(plan)
    THEN PlanAnswer("confirm_plan", plan_id, user_id, 200, TRUE,
                    "Plan already confirmed", store)
    ELSE IF ~SavedPlanValidates(plan)
    THEN PlanAnswer("confirm_plan", plan_id, user_id, 500, FALSE, "Error confirming plan",
                    (store \ {plan}) \cup {ConfirmedPlan(plan, Now(store))})
    ELSE PlanAnswer("confirm_plan", plan_id, user_id, 200, TRUE, "Campaign confirmed!",
                    (store \ {plan}) \cup {ConfirmedPlan(plan, Now(store))})

\* confirm_plan (PUT /plans/{plan_id}/confirm)
ConfirmPlan(store, plan_id, user_id) ==
    IF PlansOf(store, plan_id, user_id) = {}
    THEN PlanAnswer("confirm_plan", plan_id, user_id, 404, FALSE, "Plan not found", store)
    ELSE ConfirmFound(store, CHOOSE p \in PlansOf(store, plan_id, user_id) : TRUE,
                      plan_id, user_id)

\* the PlanRequest dicts a client saves: one with a budget, one without
SavedRequests == {[budget |-> 150], [category |-> "catA"]}

\* the PlanResponse dicts a client saves: no creator, a creator with every
\* required field, a creator as create_plan builds its creator_stat
SavedResponses ==
    {[picked_creators |-> <<>>],
     [picked_creators |-> << [f \in PlanCreatorRequired |-> 1] >>],
     [picked_creators |-> << [f \in PlanCreatorRequired \ {"recommended_placements"} |-> 1] >>]}

\* the answer without the handler's view of the table
PlanCall(answer) ==
    [op |-> answer.op, plan_id |-> answer.plan_id, user_id |-> answer.user_id,
     status |-> answer.status, success |-> answer.success, message |-> answer.message]

\* an empty database, no call in progress
PlansInit ==
    /\ click_uniques = {}
    /\ conversions = {}
    /\ declined_creators = {}
    /\ plans = {}
    /\ call = Idle

SavePlanRequest ==
    /\ call.op = "idle"
    /\ Cardinality(plans) < MaxPlans
    /\ \E user_id \in UserIds, plan_request \in SavedRequests, plan_data \in SavedResponses :
          /\ call' = PlanCall(SavePlan(plans, user_id, plan_request, plan_data))
          /\ plans' = SavePlan(plans, user_id, plan_request, plan_data).store
    /\ UNCHANGED <<click_uniques, conversions, declined_creators>>

ConfirmPlanRequest ==
    /\ call.op = "idle"
    /\ \E plan_id \in 1 .. (MaxPlans + 1), user_id \in UserIds :
          /\ call' = PlanCall(ConfirmPlan(plans, plan_id, user_id))
          /\ plans' = ConfirmPlan(plans, plan_id, user_id).store
    /\ UNCHANGED <<click_uniques, conversions, declined_creators>>

PlansNext == SavePlanRequest \/ ConfirmPlanRequest \/ Respond

PlansSpec == PlansInit /\ [][PlansNext]_vars

\* ------------------------------------------------------------------------
\* Properties of the saved plans
\* ------------------------------------------------------------------------
\* the step confirms a plan that the table holds as confirmed
Reconfirms ==
    /\ call'.op = "confirm_plan"
    /\ \E p \in PlansOf(plans, call'.plan_id, call'.user_id) : p.status = "confirmed"

\* the plan is still in the table, and if it was confirmed it is so still,
\* at the time it was confirmed at; no plan is anything but draft or confirmed
KeepsConfirmation(p) ==
    \E q \in plans' :
        /\ q.plan_id = p.plan_id
        /\ q.status \in {"draft", "confirmed"}
        /\ p.status = "confirmed" =>
              q.status = "confirmed" /\ q.confirmed_at = p.confirmed_at

\* C30: confirming a plan that is already confirmed changes nothing and
\* answers success, the status and confirmed_at of the plan staying as they
\* were; so under any sequence of save and confirm requests the status of a
\* plan only moves from draft to confirmed and never back.
C30_ConfirmIsIdempotent ==
    [][/\ Reconfirms => (plans' = plans /\ call'.status = 200 /\ call'.success)
       /\ \A p \in plans : KeepsConfirmation(p)]_vars

\* C30 witness: a confirmed plan was confirmed again, after a later write to
\* the table had moved the clock on
C30_Witness ==
    /\ call.op = "confirm_plan"
    /\ call.status = 200
    /\ call.message = "Plan already confirmed"
    /\ \E p \in PlansOf(plans, call.plan_id, call.user_id) :
          /\ p.status = "confirmed"
          /\ Val(p.confirmed_at) < Now(plans) - 1

\* ------------------------------------------------------------------------
\* The allocated creators and the candidate pool
\* ------------------------------------------------------------------------
\* C29: every creator with an allocation in a returned plan is a member of
\* the candidate pool built for the request, and so is neither on the
\* exclude list nor declined by the requesting advertiser.
C29_AllocatedFromPool ==
    (Planned /\ call.status = 200) =>
        \A c \in IdsOf(call.plan.picked_creators) :
            /\ c \in SeqRange(call.pool) \cup IdsOf(call.matched)
            /\ CreatorAcctId(c) \notin ParseAcctIds(call.req.exclude_acct_ids)
            /\ call.req.advertiser_id # 0 => c \notin DeclinedIds(call.req.advertiser_id)

====
